---------------------------- MODULE Spec2Model ----------------------------
(***************************************************************************)
(* Model of the natural-language task-command pipeline of the todo         *)
(* application: RuleBasedClassifier, IntentClassifierAgent,                *)
(* TaskResolutionAgent, ActionAgent, the MCP task tools over the task      *)
(* service, ChatbotService.process_message, and the RateLimiter of the     *)
(* chat endpoint.                                                          *)
(*                                                                         *)
(* Text is modelled as a sequence of one-character strings so that         *)
(* lower(), strip(), substring tests and the regular expressions of the    *)
(* source are computed, not assumed.  Confidence is in hundredths          *)
(* (0.7 is 70).                                                            *)
(***************************************************************************)
EXTENDS Integers, Sequences, FiniteSets, TLC

VARIABLES tasks, conversations, messages, requests, now, last

vars == <<tasks, conversations, messages, requests, now, last>>

\* a local name bound to a value that is computed once
With(value, Body(_)) == Body(value)

---------------------------------------------------------------------------
(* Text primitives (Python str methods and the re module, as used).        *)

UpperToLower ==
  [A |-> "a", B |-> "b", C |-> "c", D |-> "d", E |-> "e", F |-> "f",
   G |-> "g", H |-> "h", I |-> "i", J |-> "j", K |-> "k", L |-> "l",
   M |-> "m", N |-> "n", O |-> "o", P |-> "p", Q |-> "q", R |-> "r",
   S |-> "s", T |-> "t", U |-> "u", V |-> "v", W |-> "w", X |-> "x",
   Y |-> "y", Z |-> "z"]

LowerLetters ==
  {"a","b","c","d","e","f","g","h","i","j","k","l","m",
   "n","o","p","q","r","s","t","u","v","w","x","y","z"}

DigitValue ==
  [c \in {"0","1","2","3","4","5","6","7","8","9"} |->
     CASE c = "0" -> 0 [] c = "1" -> 1 [] c = "2" -> 2 [] c = "3" -> 3
       [] c = "4" -> 4 [] c = "5" -> 5 [] c = "6" -> 6 [] c = "7" -> 7
       [] c = "8" -> 8 [] c = "9" -> 9]

IsDigit(c) == c \in DOMAIN DigitValue

IsSpace(c) == c \in {" ", "\t", "\n"}

\* \w of the re module, as far as the model's alphabet goes
IsWordChar(c) == c \in LowerLetters \/ c \in DOMAIN UpperToLower \/ IsDigit(c) \/ c = "_"

Min(S) == CHOOSE x \in S : \A y \in S : x <= y

\* str.lower()
Lower(s) == [i \in 1..Len(s) |-> IF s[i] \in DOMAIN UpperToLower THEN UpperToLower[s[i]] ELSE s[i]]

\* str.strip()
Strip(s) ==
  LET keep == {i \in 1..Len(s) : ~IsSpace(s[i])}
  IN  IF keep = {} THEN <<>>
      ELSE SubSeq(s, Min(keep), CHOOSE x \in keep : \A y \in keep : y <= x)

\* s[i:].startswith(p), i counted from 1
IsPrefixAt(s, i, p) ==
  /\ i + Len(p) - 1 <= Len(s)
  /\ \A k \in 1..Len(p) : s[i + k - 1] = p[k]

\* p in s
Contains(s, p) == \E i \in 1..(Len(s) - Len(p) + 1) : IsPrefixAt(s, i, p)

\* s.split(p, 1)[1] when p in s: the text after the first occurrence of p
AfterFirst(s, p) ==
  LET i == Min({j \in 1..(Len(s) - Len(p) + 1) : IsPrefixAt(s, j, p)})
  IN  SubSeq(s, i + Len(p), Len(s))

\* s.split(p, 1)[0] when p in s: the text before the first occurrence of p
BeforeFirst(s, p) ==
  LET i == Min({j \in 1..(Len(s) - Len(p) + 1) : IsPrefixAt(s, j, p)})
  IN  SubSeq(s, 1, i - 1)

\* length of the run of whitespace (of digits) of s that starts at i
RECURSIVE SpaceRun(_, _)
SpaceRun(s, i) == IF i <= Len(s) /\ IsSpace(s[i]) THEN 1 + SpaceRun(s, i + 1) ELSE 0

RECURSIVE DigitRun(_, _)
DigitRun(s, i) == IF i <= Len(s) /\ IsDigit(s[i]) THEN 1 + DigitRun(s, i + 1) ELSE 0

\* int() of a string of decimal digits
RECURSIVE ToInt(_)
ToInt(d) == IF d = <<>> THEN 0 ELSE 10 * ToInt(SubSeq(d, 1, Len(d) - 1)) + DigitValue[d[Len(d)]]

---------------------------------------------------------------------------
(* Literals of the source and of the scenarios, as text.                   *)

\* the keywords and regular-expression literals of the classifier and the resolver
Keyword ==
  [show |-> <<"s","h","o","w">>,
   list |-> <<"l","i","s","t">>,
   view |-> <<"v","i","e","w">>,
   display |-> <<"d","i","s","p","l","a","y">>,
   task |-> <<"t","a","s","k">>,
   todo |-> <<"t","o","d","o">>,
   delete |-> <<"d","e","l","e","t","e">>,
   remove |-> <<"r","e","m","o","v","e">>,
   trash |-> <<"t","r","a","s","h">>,
   cancel |-> <<"c","a","n","c","e","l">>,
   completed |-> <<"c","o","m","p","l","e","t","e","d">>,
   done |-> <<"d","o","n","e">>,
   finished |-> <<"f","i","n","i","s","h","e","d">>,
   mark |-> <<"m","a","r","k">>,
   complete |-> <<"c","o","m","p","l","e","t","e">>,
   finish |-> <<"f","i","n","i","s","h">>,
   remind_me |-> <<"r","e","m","i","n","d"," ","m","e">>,
   add |-> <<"a","d","d">>,
   create |-> <<"c","r","e","a","t","e">>,
   new |-> <<"n","e","w">>,
   remind |-> <<"r","e","m","i","n","d">>,
   reminder |-> <<"r","e","m","i","n","d","e","r">>,
   make |-> <<"m","a","k","e">>,
   update |-> <<"u","p","d","a","t","e">>,
   change |-> <<"c","h","a","n","g","e">>,
   edit |-> <<"e","d","i","t">>,
   modify |-> <<"m","o","d","i","f","y">>,
   rename |-> <<"r","e","n","a","m","e">>,
   pending |-> <<"p","e","n","d","i","n","g">>,
   active |-> <<"a","c","t","i","v","e">>,
   urgent |-> <<"u","r","g","e","n","t">>,
   high_priority |-> <<"h","i","g","h"," ","p","r","i","o","r","i","t","y">>,
   id |-> <<"i","d">>,
   number |-> <<"n","u","m","b","e","r">>,
   as |-> <<"a","s">>,
   the |-> <<"t","h","e">>,
   my |-> <<"m","y">>,
   first |-> <<"f","i","r","s","t">>,
   ord_1st |-> <<"1","s","t">>,
   second |-> <<"s","e","c","o","n","d">>,
   ord_2nd |-> <<"2","n","d">>,
   third |-> <<"t","h","i","r","d">>,
   ord_3rd |-> <<"3","r","d">>,
   fourth |-> <<"f","o","u","r","t","h">>,
   ord_4th |-> <<"4","t","h">>,
   fifth |-> <<"f","i","f","t","h">>,
   ord_5th |-> <<"5","t","h">>,
   last |-> <<"l","a","s","t">>,
   finishe |-> <<"f","i","n","i","s","h","e">>,
   with |-> <<"w","i","t","h">>,
   to |-> <<"t","o">>,
   due |-> <<"d","u","e">>,
   a |-> <<"a">>,
   an |-> <<"a","n">>,
   for |-> <<"f","o","r">>,
   me |-> <<"m","e">>,
   s |-> <<"s">>,
   colon |-> <<":">>,
   important |-> <<"i","m","p","o","r","t","a","n","t">>,
   as_high |-> <<"a","s"," ","h","i","g","h">>,
   low_priority |-> <<"l","o","w"," ","p","r","i","o","r","i","t","y">>,
   as_low |-> <<"a","s"," ","l","o","w">>,
   medium_priority |-> <<"m","e","d","i","u","m"," ","p","r","i","o","r","i","t","y">>,
   as_medium |-> <<"a","s"," ","m","e","d","i","u","m">>,
   sp_to_sp |-> <<" ","t","o"," ">>,
   description |-> <<"d","e","s","c","r","i","p","t","i","o","n">>]

\* task titles
TaskTitle ==
  [buy_groceries |-> <<"B","u","y"," ","g","r","o","c","e","r","i","e","s">>,
   grocery_shopping |-> <<"G","r","o","c","e","r","y"," ","s","h","o","p","p","i","n","g">>,
   call_mom |-> <<"C","a","l","l"," ","m","o","m">>]

\* messages of a user
UserMessage ==
  [delete_the_grocery_one |-> <<"d","e","l","e","t","e"," ","t","h","e"," ","g","r","o","c","e","r","y"," ","o","n","e">>,
   delete_completed_tasks |-> <<"d","e","l","e","t","e"," ","c","o","m","p","l","e","t","e","d"," ","t","a","s","k","s">>,
   hey |-> <<"h","e","y">>,
   delete_grocery_shopping |-> <<"D","e","l","e","t","e"," ","G","r","o","c","e","r","y"," ","S","h","o","p","p","i","n","g">>,
   add_task_call_mom |-> <<"a","d","d"," ","t","a","s","k"," ","c","a","l","l"," ","m","o","m">>,
   mark_task_1_as_done |-> <<"m","a","r","k"," ","t","a","s","k"," ","1"," ","a","s"," ","d","o","n","e">>]

\* task references
Reference ==
  [the_grocery_one |-> <<"t","h","e"," ","g","r","o","c","e","r","y"," ","o","n","e">>,
   grocer |-> <<"g","r","o","c","e","r">>,
   grocery_shop |-> <<"G","R","O","C","E","R","Y"," ","S","H","O","P">>,
   call_mom_today |-> <<"c","a","l","l"," ","m","o","m"," ","t","o","d","a","y">>,
   first |-> <<"f","i","r","s","t">>,
   last |-> <<"l","a","s","t">>]


---------------------------------------------------------------------------
(* Regular expressions of rule_based_classifier.py.  A pattern is a word-  *)
(* boundary flag and a sequence of tokens: a literal, \s* or \s+ (a run of *)
(* whitespace of at least min characters) and the captured group (\d+).    *)
(* The character classes around every run are disjoint, so the greedy      *)
(* match is the only one and no backtracking is needed.                    *)

Lit(v) == [k |-> "lit", v |-> v, min |-> 0]

Sp(m) == [k |-> "sp", v |-> <<>>, min |-> m]

Dig == [k |-> "dig", v |-> <<>>, min |-> 1]

\* the captured integer when toks match s from position i, else -1
RECURSIVE MatchTokens(_, _, _, _)
MatchTokens(s, i, toks, cap) ==
  IF toks = <<>> THEN cap
  ELSE LET t == Head(toks)
       IN  CASE t.k = "lit" ->
                  IF IsPrefixAt(s, i, t.v)
                    THEN MatchTokens(s, i + Len(t.v), Tail(toks), cap)
                    ELSE -1
             [] t.k = "sp" ->
                  IF SpaceRun(s, i) >= t.min
                    THEN MatchTokens(s, i + SpaceRun(s, i), Tail(toks), cap)
                    ELSE -1
             [] t.k = "dig" ->
                  IF DigitRun(s, i) >= 1
                    THEN MatchTokens(s, i + DigitRun(s, i), Tail(toks),
                                     ToInt(SubSeq(s, i, i + DigitRun(s, i) - 1)))
                    ELSE -1

\* \b in front of a word character at position i
WordBoundary(s, i) == i = 1 \/ ~IsWordChar(s[i - 1])

\* re.search(pattern, s): group(1) of the leftmost match as an integer, else -1
Search(s, pat) ==
  LET hits == {i \in 1..Len(s) :
                 /\ pat.wb => WordBoundary(s, i)
                 /\ MatchTokens(s, i, pat.toks, -1) >= 0}
  IN  IF hits = {} THEN -1 ELSE MatchTokens(s, Min(hits), pat.toks, -1)

\* the ordered pattern list of _extract_task_reference
TaskIdPatterns ==
  << [wb |-> TRUE,  toks |-> <<Lit(Keyword.id), Sp(0), Dig>>],
     [wb |-> TRUE,  toks |-> <<Lit(Keyword.task), Sp(0), Lit(Keyword.id), Sp(0), Dig>>],
     [wb |-> TRUE,  toks |-> <<Lit(Keyword.task), Sp(1), Dig>>],
     [wb |-> TRUE,  toks |-> <<Lit(Keyword.number), Sp(1), Dig>>],
     [wb |-> FALSE, toks |-> <<Lit(<<"#">>), Dig>>],
     [wb |-> TRUE,  toks |-> <<Lit(Keyword.task), Dig>>],
     [wb |-> TRUE,  toks |-> <<Lit(Keyword.id), Dig>>],
     [wb |-> FALSE, toks |-> <<Dig, Sp(1), Lit(Keyword.task)>>] >>

\* the first pattern of pats (from index n) that matches gives the id, else -1
RECURSIVE FirstPatternId(_, _, _)
FirstPatternId(s, pats, n) ==
  IF n > Len(pats) THEN -1
  ELSE IF Search(s, pats[n]) >= 0 THEN Search(s, pats[n])
  ELSE FirstPatternId(s, pats, n + 1)

\* re.sub(r'\s+as\s+(completed?|done|finished?)\s*$', '', t).strip()
StatusWords == {Keyword.complete, Keyword.completed, Keyword.done, Keyword.finishe, Keyword.finished}

RemoveStatusSuffix(t) ==
  LET J == {j \in 2..Len(t) :
              /\ IsSpace(t[j - 1])
              /\ IsPrefixAt(t, j, Keyword.as)
              /\ j + 2 <= Len(t)
              /\ IsSpace(t[j + 2])
              /\ Strip(SubSeq(t, j + 2, Len(t))) \in StatusWords}
  IN  IF J = {} THEN Strip(t) ELSE Strip(SubSeq(t, 1, Min(J) - 1))

\* the text after a leading  word\s+  of t, or "none" when t does not start so
AfterWord(t, w) ==
  IF IsPrefixAt(t, 1, w) /\ SpaceRun(t, Len(w) + 1) >= 1
    THEN [hit |-> TRUE, rest |-> SubSeq(t, Len(w) + 1 + SpaceRun(t, Len(w) + 1), Len(t))]
    ELSE [hit |-> FALSE, rest |-> t]

LStrip(t) == SubSeq(t, 1 + SpaceRun(t, 1), Len(t))

\* re.sub(r'^\s*(the\s+)?task\s+', '', t).strip()
RemoveTaskPrefix(t) ==
  LET t0      == LStrip(t)
      withThe == IF AfterWord(t0, Keyword.the).hit
                   THEN AfterWord(AfterWord(t0, Keyword.the).rest, Keyword.task)
                   ELSE [hit |-> FALSE, rest |-> t]
      without == AfterWord(t0, Keyword.task)
  IN  IF withThe.hit THEN Strip(withThe.rest)
      ELSE IF without.hit THEN Strip(without.rest)
      ELSE Strip(t)

\* re.sub(r'^\s*my\s+task\s+', '', t).strip()
RemoveMyTaskPrefix(t) ==
  LET t0 == LStrip(t)
      my == IF AfterWord(t0, Keyword.my).hit
              THEN AfterWord(AfterWord(t0, Keyword.my).rest, Keyword.task)
              ELSE [hit |-> FALSE, rest |-> t]
  IN  IF my.hit THEN Strip(my.rest) ELSE Strip(t)

---------------------------------------------------------------------------
(* Entities: a Python dict.  keys is the set of keys present; the field of *)
(* an absent key holds the falsy default, which is what dict.get() is      *)
(* tested for.  task_id 0 also stands for a JSON null.                     *)

NoEntities ==
  [keys |-> {}, task_id |-> 0, task_reference |-> <<>>, batch_delete |-> FALSE,
   filter_completed |-> FALSE, completed |-> FALSE, title |-> <<>>, priority |-> ""]

Has(e, k) == k \in e.keys

WithId(e, n) == [e EXCEPT !.keys = @ \cup {"task_id"}, !.task_id = n]

WithReference(e, r) == [e EXCEPT !.keys = @ \cup {"task_reference"}, !.task_reference = r]

WithBatch(e) ==
  [e EXCEPT !.keys = @ \cup {"batch_delete", "filter_completed"},
            !.batch_delete = TRUE, !.filter_completed = TRUE]

WithFilter(e, b) == [e EXCEPT !.keys = @ \cup {"filter_completed"}, !.filter_completed = b]

WithCompleted(e, b) == [e EXCEPT !.keys = @ \cup {"completed"}, !.completed = b]

WithTitle(e, t) == [e EXCEPT !.keys = @ \cup {"title"}, !.title = t]

WithPriority(e, p) == [e EXCEPT !.keys = @ \cup {"priority"}, !.priority = p]

---------------------------------------------------------------------------
(* RuleBasedClassifier                                                     *)

AnyIn(msg, kws) == \E kw \in kws : Contains(msg, kw)

IsListTasks(msg) ==
  /\ AnyIn(msg, {Keyword.show, Keyword.list, Keyword.view, Keyword.display})
  /\ AnyIn(msg, {Keyword.task, Keyword.todo})

IsCreateTask(msg) ==
  \/ Contains(msg, Keyword.remind_me)
  \/ Contains(msg, Keyword.make) /\ AnyIn(msg, {Keyword.task, Keyword.todo})
  \/ /\ AnyIn(msg, {Keyword.add, Keyword.create, Keyword.new, Keyword.remind})
     /\ AnyIn(msg, {Keyword.task, Keyword.todo, Keyword.reminder})

IsCompleteTask(msg) == AnyIn(msg, {Keyword.mark, Keyword.complete, Keyword.done, Keyword.finish, Keyword.completed})

IsDeleteTask(msg) == AnyIn(msg, {Keyword.delete, Keyword.remove, Keyword.trash, Keyword.cancel})

IsUpdateTask(msg) == AnyIn(msg, {Keyword.update, Keyword.change, Keyword.edit, Keyword.modify, Keyword.rename})

\* the reference left of the text after keyword kw, <<>> when it is rejected
ReferenceAfter(msg, kw) ==
  LET t == RemoveMyTaskPrefix(RemoveTaskPrefix(RemoveStatusSuffix(Strip(AfterFirst(msg, kw)))))
  IN  IF Len(t) > 2 THEN t ELSE <<>>

ReferenceKeywords == <<Keyword.delete, Keyword.remove, Keyword.complete, Keyword.done, Keyword.mark, Keyword.finish>>

\* the loop over the keywords, from keyword n on
RECURSIVE TextReference(_, _)
TextReference(msg, n) ==
  IF n > Len(ReferenceKeywords) THEN <<>>
  ELSE IF Contains(msg, ReferenceKeywords[n]) /\ ReferenceAfter(msg, ReferenceKeywords[n]) # <<>>
    THEN ReferenceAfter(msg, ReferenceKeywords[n])
  ELSE TextReference(msg, n + 1)

ExtractTaskReference(msg) ==
  IF /\ AnyIn(msg, {Keyword.delete, Keyword.remove})
     /\ AnyIn(msg, {Keyword.completed, Keyword.done, Keyword.finished})
     /\ Contains(msg, Keyword.task)
    THEN WithBatch(NoEntities)
  ELSE IF FirstPatternId(msg, TaskIdPatterns, 1) >= 0
    THEN WithId(NoEntities, FirstPatternId(msg, TaskIdPatterns, 1))
  ELSE IF TextReference(msg, 1) # <<>>
    THEN WithReference(NoEntities, TextReference(msg, 1))
  ELSE NoEntities

ExtractListFilters(msg) ==
  LET e1 == IF AnyIn(msg, {Keyword.completed, Keyword.done, Keyword.finished}) THEN WithFilter(NoEntities, TRUE)
            ELSE IF AnyIn(msg, {Keyword.pending, Keyword.active, Keyword.todo}) THEN WithFilter(NoEntities, FALSE)
            ELSE NoEntities
  IN  IF AnyIn(msg, {Keyword.urgent, Keyword.high_priority}) THEN WithPriority(e1, "high") ELSE e1

---------------------------------------------------------------------------
(* The title templates of _extract_create_entities.  Each ends in the      *)
(* capture (.+); what precedes it may match in several ways (optional      *)
(* groups, runs that give characters back), so EndSet computes every       *)
(* position the prefix can end at.  Every greedy preference of these       *)
(* templates consumes more text before the capture, so the match the re    *)
(* module returns is the one whose capture starts latest.                  *)

Opt(alts) == [k |-> "opt", v |-> alts, min |-> 0]

Alt(alts) == [k |-> "alt", v |-> alts, min |-> 0]

Digits == [k |-> "digs", v |-> <<>>, min |-> 1]

RECURSIVE EndSet(_, _, _)
EndSet(s, I, toks) ==
  IF toks = <<>> \/ I = {} THEN I
  ELSE LET t == Head(toks)
           step(i) ==
             CASE t.k = "lit"  -> IF IsPrefixAt(s, i, t.v) THEN {i + Len(t.v)} ELSE {}
               [] t.k = "sp"   -> {i + n : n \in t.min..SpaceRun(s, i)}
               [] t.k = "digs" -> {i + n : n \in 1..DigitRun(s, i)}
               [] t.k = "opt"  -> {i} \cup UNION {EndSet(s, {i}, t.v[a]) : a \in 1..Len(t.v)}
               [] t.k = "alt"  -> UNION {EndSet(s, {i}, t.v[a]) : a \in 1..Len(t.v)}
       IN  EndSet(s, UNION {step(i) : i \in I}, Tail(toks))

\* re.search(template, s).group(1), <<>> when there is no match
Capture(s, toks) ==
  LET starts == {i \in 1..Len(s) : \E p \in EndSet(s, {i}, toks) : p <= Len(s)}
      ends   == {p \in EndSet(s, {Min(starts)}, toks) : p <= Len(s)}
  IN  IF starts = {} THEN <<>>
      ELSE SubSeq(s, CHOOSE p \in ends : \A q \in ends : q <= p, Len(s))

TitleTemplates ==
  << <<Lit(Keyword.add), Sp(1), Opt(<< <<Lit(Keyword.a), Sp(1)>>, <<Lit(Keyword.new), Sp(1)>> >>),
       Lit(Keyword.task), Sp(1), Opt(<< <<Lit(Keyword.to), Sp(1)>> >>)>>,
     <<Lit(Keyword.create), Sp(1), Opt(<< <<Lit(Keyword.a), Sp(1)>>, <<Lit(Keyword.new), Sp(1)>> >>),
       Opt(<< <<Digits, Sp(1)>> >>), Lit(Keyword.task), Opt(<< <<Lit(Keyword.s)>> >>), Sp(1),
       Opt(<< <<Lit(Keyword.for), Sp(1)>>, <<Lit(Keyword.to), Sp(1)>> >>)>>,
     <<Lit(Keyword.make), Sp(1),
       Opt(<< <<Lit(Keyword.a), Sp(1)>>, <<Lit(Keyword.new), Sp(1)>>, <<Digits, Sp(1)>> >>),
       Lit(Keyword.task), Opt(<< <<Lit(Keyword.s)>> >>), Sp(1),
       Opt(<< <<Lit(Keyword.for), Sp(1)>>, <<Lit(Keyword.to), Sp(1)>> >>)>>,
     <<Lit(Keyword.remind), Sp(1), Lit(Keyword.me), Sp(1), Lit(Keyword.to), Sp(1)>>,
     <<Lit(Keyword.new), Sp(1), Lit(Keyword.task), Opt(<< <<Lit(Keyword.s)>> >>), Sp(1),
       Opt(<< <<Lit(Keyword.for), Sp(1)>> >>)>>,
     <<Lit(Keyword.add), Sp(1), Lit(Keyword.new), Sp(1), Lit(Keyword.task), Sp(0),
       Opt(<< <<Lit(Keyword.colon), Sp(0)>> >>)>>,
     <<Alt(<< <<Lit(Keyword.add)>>, <<Lit(Keyword.create)>> >>), Sp(1),
       Opt(<< <<Lit(Keyword.task), Sp(1)>> >>)>> >>

\* str.isdigit()
IsDigitString(t) == t # <<>> /\ \A i \in 1..Len(t) : IsDigit(t[i])

\* the loop over the templates from template n on; cur is title_text so far
RECURSIVE TitleText(_, _, _)
TitleText(msg, n, cur) ==
  IF n > Len(TitleTemplates) THEN cur
  ELSE LET c == Strip(Capture(msg, TitleTemplates[n]))
       IN  IF Capture(msg, TitleTemplates[n]) = <<>> THEN TitleText(msg, n + 1, cur)
           ELSE IF Len(c) > 2 /\ ~IsDigitString(c) THEN c
           ELSE TitleText(msg, n + 1, c)

\* re.sub(r'\s+', ' ', t)
RECURSIVE CollapseSpaces(_)
CollapseSpaces(t) ==
  IF t = <<>> THEN <<>>
  ELSE IF IsSpace(t[1]) THEN <<" ">> \o CollapseSpaces(SubSeq(t, 1 + SpaceRun(t, 1), Len(t)))
  ELSE <<t[1]>> \o CollapseSpaces(Tail(t))

\* _extract_priority
ExtractPriority(msg) ==
  IF AnyIn(msg, {Keyword.high_priority, Keyword.urgent, Keyword.important, Keyword.as_high}) THEN "high"
  ELSE IF AnyIn(msg, {Keyword.low_priority, Keyword.as_low}) THEN "low"
  ELSE IF AnyIn(msg, {Keyword.medium_priority, Keyword.as_medium}) THEN "medium"
  ELSE ""

\* _extract_create_entities, for messages without tag, priority and date
\* phrases (the phrases its clean-up removes from the title)
ExtractCreateEntities(msg) ==
  LET title == CollapseSpaces(Strip(TitleText(msg, 1, <<>>)))
      e1    == IF title # <<>> THEN WithTitle(NoEntities, title) ELSE NoEntities
  IN  IF ExtractPriority(msg) # "" THEN WithPriority(e1, ExtractPriority(msg)) ELSE e1

UpdateIdPatterns == SubSeq(TaskIdPatterns, 1, 3)

RemovedWords == {Keyword.update, Keyword.task, Keyword.the, Keyword.a, Keyword.an, Keyword.my}

\* length of the run of word characters of t that starts at i
RECURSIVE WordRun(_, _)
WordRun(t, i) == IF i <= Len(t) /\ IsWordChar(t[i]) THEN 1 + WordRun(t, i + 1) ELSE 0

\* re.sub(r'\b(update|task|the|a|an|my)\b', '', t)
RECURSIVE RemoveWords(_)
RemoveWords(t) ==
  IF t = <<>> THEN <<>>
  ELSE IF IsWordChar(t[1])
    THEN (IF SubSeq(t, 1, WordRun(t, 1)) \in RemovedWords THEN <<>> ELSE SubSeq(t, 1, WordRun(t, 1)))
         \o RemoveWords(SubSeq(t, WordRun(t, 1) + 1, Len(t)))
  ELSE <<t[1]>> \o RemoveWords(Tail(t))

SplitKeywords == <<Keyword.with, Keyword.to, Keyword.as, Keyword.due>>

\* the loop over with/to/as/due from keyword n on
RECURSIVE UpdateReference(_, _)
UpdateReference(msg, n) ==
  IF n > Len(SplitKeywords) THEN <<>>
  ELSE IF /\ Contains(msg, SplitKeywords[n])
          /\ Len(Strip(RemoveWords(BeforeFirst(msg, SplitKeywords[n])))) > 2
    THEN Strip(RemoveWords(BeforeFirst(msg, SplitKeywords[n])))
  ELSE UpdateReference(msg, n + 1)

\* _extract_update_entities, for messages without description, tag and date
\* phrases
ExtractUpdateEntities(msg) ==
  LET e1 == IF FirstPatternId(msg, UpdateIdPatterns, 1) >= 0
              THEN WithId(NoEntities, FirstPatternId(msg, UpdateIdPatterns, 1))
            ELSE IF UpdateReference(msg, 1) # <<>>
              THEN WithReference(NoEntities, UpdateReference(msg, 1))
            ELSE NoEntities
      e2 == IF /\ Contains(msg, Keyword.sp_to_sp)
               /\ ~Contains(msg, Keyword.description)
               /\ ~Contains(msg, Keyword.due)
               /\ Strip(AfterFirst(msg, Keyword.sp_to_sp)) # <<>>
              THEN WithTitle(e1, Strip(AfterFirst(msg, Keyword.sp_to_sp)))
              ELSE e1
  IN  IF ExtractPriority(msg) # "" THEN WithPriority(e2, ExtractPriority(msg)) ELSE e2

\* a classifier that tests the completion keywords before the delete keywords
RuleBasedClassifyCompleteFirst(message) ==
  LET msg == Strip(Lower(message))
  IN  IF IsListTasks(msg)
        THEN [intent |-> "list_tasks", confidence |-> 95, entities |-> ExtractListFilters(msg), error |-> FALSE]
      ELSE IF IsCompleteTask(msg)
        THEN [intent |-> "complete_task", confidence |-> 90, entities |-> ExtractTaskReference(msg), error |-> FALSE]
      ELSE IF IsDeleteTask(msg)
        THEN [intent |-> "delete_task", confidence |-> 90, entities |-> ExtractTaskReference(msg), error |-> FALSE]
      ELSE IF IsCreateTask(msg)
        THEN [intent |-> "create_task", confidence |-> 90, entities |-> ExtractCreateEntities(msg), error |-> FALSE]
      ELSE IF IsUpdateTask(msg)
        THEN [intent |-> "update_task", confidence |-> 85, entities |-> ExtractUpdateEntities(msg), error |-> FALSE]
      ELSE [intent |-> "unclear", confidence |-> 20, entities |-> NoEntities, error |-> FALSE]

\* RuleBasedClassifier.classify
RuleBasedClassify(message) ==
  LET msg == Strip(Lower(message))
  IN  IF IsListTasks(msg)
        THEN [intent |-> "list_tasks", confidence |-> 95, entities |-> ExtractListFilters(msg), error |-> FALSE]
      ELSE IF IsDeleteTask(msg)
        THEN [intent |-> "delete_task", confidence |-> 90, entities |-> ExtractTaskReference(msg), error |-> FALSE]
      ELSE IF IsCompleteTask(msg)
        THEN [intent |-> "complete_task", confidence |-> 90, entities |-> ExtractTaskReference(msg), error |-> FALSE]
      ELSE IF IsCreateTask(msg)
        THEN [intent |-> "create_task", confidence |-> 90, entities |-> ExtractCreateEntities(msg), error |-> FALSE]
      ELSE IF IsUpdateTask(msg)
        THEN [intent |-> "update_task", confidence |-> 85, entities |-> ExtractUpdateEntities(msg), error |-> FALSE]
      ELSE [intent |-> "unclear", confidence |-> 20, entities |-> NoEntities, error |-> FALSE]

---------------------------------------------------------------------------
(* Task storage (models/task.py, services/task_service.py).  tasks is the  *)
(* table in insertion order: the id of a task is its position, and         *)
(* created_at grows with the id.  deleted stands for a deleted_at that is  *)
(* set.                                                                    *)

Reverse(s) == [i \in 1..Len(s) |-> s[Len(s) + 1 - i]]

\* s[:n] for n >= 0
Take(s, n) == SubSeq(s, 1, IF n < Len(s) THEN n ELSE Len(s))

Snapshot(t) == [id |-> t.id, title |-> t.title, completed |-> t.completed]

\* get_tasks(db, user_id, priority, completed=..., sort_by="created_at", order="desc");
\* filter is "all", "pending" or "completed", priority "" stands for None
GetTasks(store, u, priority, filter) ==
  LET keep(t) == /\ t.user = u
                 /\ ~t.deleted
                 /\ priority # "" => t.priority = priority
                 /\ filter = "pending" => ~t.completed
                 /\ filter = "completed" => t.completed
  IN  Reverse(SelectSeq(store, keep))

\* a lookup that does not look at the owner
GetTaskByIdOfAnyUser(store, id, u) ==
  IF id \in 1..Len(store) /\ ~store[id].deleted THEN id ELSE 0

\* a lookup that does not look at deleted_at
GetTaskByIdDeletedToo(store, id, u) ==
  IF id \in 1..Len(store) /\ store[id].user = u THEN id ELSE 0

\* get_task_by_id
GetTaskById(store, id, u) ==
  IF id \in 1..Len(store) /\ store[id].user = u /\ ~store[id].deleted THEN id ELSE 0

---------------------------------------------------------------------------
(* MCP task tools (mcp/task_tools.py).  A tool result is                   *)
(* [success, error, tasks]; error "" stands for no error key.              *)

DefaultLimit == 50

LimitCap == 200

ListTasksParameters == {"db", "user_id", "status", "priority", "tags", "limit", "correlation_id"}

Priorities == {"high", "medium", "low"}

\* list_tasks(db, user_id, status, priority, limit=limit)
ListTasks(store, u, status, priority, limit) ==
  IF status \notin {"all", "pending", "completed"}
    THEN [success |-> FALSE, error |-> "Invalid status", tasks |-> <<>>]
  ELSE IF priority # "" /\ priority \notin Priorities
    THEN [success |-> FALSE, error |-> "Invalid priority", tasks |-> <<>>]
  ELSE [success |-> TRUE, error |-> "",
        tasks |-> With(Take(GetTasks(store, u, priority, status),
                            IF limit < LimitCap THEN limit ELSE LimitCap),
                       LAMBDA cut : [i \in 1..Len(cut) |-> Snapshot(cut[i])])]

\* phase2 delete_task then the tool's result; failing is the set of task ids
\* whose deletion the storage layer fails (the tool catches the exception)
DeleteTaskTool(store, u, id, failing) ==
  IF id \in failing
    THEN [store |-> store, success |-> FALSE, error |-> "Failed to delete task"]
  ELSE IF GetTaskById(store, id, u) = 0
    THEN [store |-> store, success |-> FALSE, error |-> "not found or does not belong to user"]
  ELSE [store |-> [store EXCEPT ![id].deleted = TRUE], success |-> TRUE, error |-> ""]

\* _create_next_occurrence: a new pending task with the fields of the one
\* just completed; recurring stands for a recurrence_rule with a frequency
\* on a task that has a due_date
CreateNextOccurrence(store, t) ==
  IF ~t.recurring THEN store
  ELSE Append(store, [id |-> Len(store) + 1, user |-> t.user, title |-> t.title,
                      completed |-> FALSE, deleted |-> FALSE, priority |-> t.priority,
                      recurring |-> TRUE])

\* toggle_completion: a recurring task that goes from pending to completed
\* gets its next occurrence
ToggleCompletion(store, id, u) ==
  IF GetTaskById(store, id, u) = 0 THEN store
  ELSE IF ~store[id].completed
    THEN CreateNextOccurrence([store EXCEPT ![id].completed = TRUE], store[id])
  ELSE [store EXCEPT ![id].completed = FALSE]

\* complete_task(db, user_id, task_id, completed): toggle, and toggle again
\* when the state reached is not the one asked for; task holds the task
\* dict of a successful result
CompleteTaskTool(store, u, id, completed) ==
  IF GetTaskById(store, id, u) = 0
    THEN [store |-> store, success |-> FALSE, error |-> "not found or does not belong to user",
          task |-> <<>>]
  ELSE With(ToggleCompletion(store, id, u), LAMBDA s1 :
         With(IF s1[id].completed # completed THEN ToggleCompletion(s1, id, u) ELSE s1,
              LAMBDA s2 : [store |-> s2, success |-> TRUE, error |-> "",
                           task |-> <<Snapshot(s2[id])>>]))

\* add_task(db, user_id, title, priority=priority)
AddTaskTool(store, u, title, priority) ==
  IF priority \notin Priorities
    THEN [store |-> store, success |-> FALSE, error |-> "Invalid priority"]
  ELSE IF Strip(title) = <<>>
    THEN [store |-> store, success |-> FALSE, error |-> "Task title cannot be empty"]
  ELSE [store |-> Append(store, [id |-> Len(store) + 1, user |-> u, title |-> Strip(title),
                                 completed |-> FALSE, deleted |-> FALSE, priority |-> priority,
                                 recurring |-> FALSE]),
        success |-> TRUE, error |-> ""]

\* update_task(db, user_id, task_id, title=title, priority=priority): title <<>>
\* and priority "" stand for None
UpdateTaskTool(store, u, id, title, priority) ==
  IF priority # "" /\ priority \notin Priorities
    THEN [store |-> store, success |-> FALSE, error |-> "Invalid priority"]
  ELSE IF GetTaskById(store, id, u) = 0
    THEN [store |-> store, success |-> FALSE, error |-> "not found or does not belong to user"]
  ELSE [store |-> [store EXCEPT ![id].title = IF title # <<>> THEN Strip(title) ELSE @,
                                ![id].priority = IF priority # "" THEN priority ELSE @],
        success |-> TRUE, error |-> ""]

---------------------------------------------------------------------------
(* toggle_completion statement by statement, for calls that run in         *)
(* sessions of their own.  local is the completed attribute of the Task    *)
(* object of the session, loaded tells whether the session holds it.       *)

\* the SELECT of get_task_by_id: the session gives the object it already
\* holds, with its attributes as they are, and loads the row otherwise
SelectInSession(loaded, local, row) == IF loaded THEN local ELSE row

\* task.completed = not task.completed; db.add(task); db.commit(): the
\* UPDATE writes the value computed from the object of the session
CommitToggled(store, id, local) == [store EXCEPT ![id].completed = ~local]

\* db.refresh(task): the object takes the committed row
RefreshFrom(store, id) == store[id].completed

\* complete_task after a toggle: a second toggle when the object does not
\* show the state asked for and one toggle was made
TogglesAgain(local, completed, toggles) == toggles = 1 /\ local # completed

---------------------------------------------------------------------------
(* TaskResolutionAgent (agents/task_resolution.py).  A resolution is       *)
(* [task_ids, confirmation_needed, matches, error, listed]: error "" is no *)
(* error key, listed the status arguments of the list_tasks calls made.    *)

Resolution(ids, conf, matches, error, listed) ==
  [task_ids |-> ids, confirmation_needed |-> conf, matches |-> matches,
   error |-> error, listed |-> listed]

\* Case 2: the bidirectional substring test over the listed tasks
FuzzyMatches(listing, reference) ==
  SelectSeq(listing, LAMBDA t : \/ Contains(Lower(t.title), reference)
                                \/ Contains(reference, Lower(t.title)))

ResolveReference(store, u, e) ==
  With(ListTasks(store, u, "all", "", DefaultLimit), LAMBDA listing :
    IF ~listing.success
      THEN Resolution(<<>>, FALSE, <<>>, "Failed to retrieve tasks", <<"all">>)
    ELSE With(FuzzyMatches(listing.tasks, Strip(Lower(e.task_reference))), LAMBDA matches :
      IF Len(matches) = 1
        THEN Resolution(<<matches[1].id>>, FALSE, matches, "", <<"all">>)
      ELSE IF Len(matches) > 1
        THEN Resolution([i \in 1..Len(matches) |-> matches[i].id], TRUE, matches, "", <<"all">>)
      ELSE Resolution(<<>>, FALSE, <<>>, "No tasks found matching", <<"all">>)))

\* ordinal_map, in the order the dict is iterated; -1 is the last element
OrdinalMap ==
  << <<Keyword.first, 0>>, <<Keyword.ord_1st, 0>>, <<Keyword.second, 1>>, <<Keyword.ord_2nd, 1>>, <<Keyword.third, 2>>,
     <<Keyword.ord_3rd, 2>>, <<Keyword.fourth, 3>>, <<Keyword.ord_4th, 3>>, <<Keyword.fifth, 4>>, <<Keyword.ord_5th, 4>>,
     <<Keyword.last, -1>> >>

\* Case 3: the loop over ordinal_map from entry n on
RECURSIVE ResolveOrdinal(_, _, _, _, _)
ResolveOrdinal(store, u, reference, n, listed) ==
  IF n > Len(OrdinalMap)
    THEN Resolution(<<>>, FALSE, <<>>, "No task reference found in message", listed)
  ELSE IF ~Contains(reference, OrdinalMap[n][1])
    THEN ResolveOrdinal(store, u, reference, n + 1, listed)
  ELSE With(ListTasks(store, u, "pending", "", DefaultLimit), LAMBDA listing :
         With(OrdinalMap[n][2], LAMBDA index :
           IF /\ listing.success
              /\ \/ 0 <= index /\ index < Len(listing.tasks)
                 \/ index = -1 /\ listing.tasks # <<>>
             THEN With(listing.tasks[IF index = -1 THEN Len(listing.tasks) ELSE index + 1],
                       LAMBDA t : Resolution(<<t.id>>, FALSE, <<t>>, "", Append(listed, "pending")))
             ELSE ResolveOrdinal(store, u, reference, n + 1, Append(listed, "pending"))))

\* a resolver that looks at the reference before the id
ResolveReferenceFirst(store, u, e) ==
  IF Has(e, "task_reference") /\ e.task_reference # <<>>
    THEN ResolveReference(store, u, e)
  ELSE IF Has(e, "task_id") /\ e.task_id # 0
    THEN Resolution(<<e.task_id>>, FALSE, <<>>, "", <<>>)
  ELSE Resolution(<<>>, FALSE, <<>>, "No task reference found in message", <<>>)

\* TaskResolutionAgent.resolve
Resolve(store, u, e) ==
  IF Has(e, "task_id") /\ e.task_id # 0
    THEN Resolution(<<e.task_id>>, FALSE, <<>>, "", <<>>)
  ELSE IF Has(e, "task_reference") /\ e.task_reference # <<>>
    THEN ResolveReference(store, u, e)
  ELSE IF Has(e, "task_reference")
    THEN ResolveOrdinal(store, u, Lower(e.task_reference), 1, <<>>)
  ELSE Resolution(<<>>, FALSE, <<>>, "No task reference found in message", <<>>)

---------------------------------------------------------------------------
(* ActionAgent (agents/action_agent.py).  An outcome is the store after    *)
(* the call and the tool result [success, error, path, counted,            *)
(* deleted_count, failed_count, tasks, resolveCalls, candidates]: counted  *)
(* tells whether the result has the deleted_count key, path names the      *)
(* branch that produced it, resolveCalls counts the calls of the agent's   *)
(* own TaskResolutionAgent, candidates are the <<title, id>> lines that    *)
(* the error text enumerates.                                              *)

Outcome(store, success, error, path) ==
  [store |-> store,
   result |-> [success |-> success, error |-> error, path |-> path, counted |-> FALSE,
               deleted_count |-> 0, failed_count |-> 0, tasks |-> <<>>, resolveCalls |-> 0,
               candidates |-> <<>>]]

\* the keyword arguments of the list_tasks call of the batch branch
BatchListArguments == {"db", "user_id", "completed", "correlation_id"}

\* the loop of the batch branch over the listed tasks from position n on
RECURSIVE BatchDelete(_, _, _, _, _, _, _)
BatchDelete(store, u, listed, n, failing, deleted, failed) ==
  IF n > Len(listed)
    THEN [store |-> store,
          result |-> [success |-> TRUE, error |-> "", path |-> "batch", counted |-> TRUE,
                      deleted_count |-> deleted, failed_count |-> failed, tasks |-> <<>>,
                      resolveCalls |-> 0, candidates |-> <<>>]]
  ELSE With(DeleteTaskTool(store, u, listed[n].id, failing), LAMBDA d :
         IF d.success
           THEN BatchDelete(d.store, u, listed, n + 1, failing, deleted + 1, failed)
           ELSE BatchDelete(d.store, u, listed, n + 1, failing, deleted, failed + 1))

\* the batch branch of _execute_delete_task: list_tasks is called with the
\* keyword arguments args; one the function does not declare raises
\* TypeError, which execute() catches
ExecuteBatchDelete(store, u, args, failing) ==
  IF ~(args \subseteq ListTasksParameters)
    THEN Outcome(store, FALSE, "Failed to execute action", "exception")
  ELSE With(ListTasks(store, u, IF "status" \in args THEN "completed" ELSE "all", "",
                      DefaultLimit), LAMBDA listing :
         IF ~listing.success
           THEN Outcome(store, FALSE, "Failed to fetch completed tasks", "batch")
         ELSE IF listing.tasks = <<>>
           THEN [store |-> store,
                 result |-> [success |-> TRUE, error |-> "", path |-> "batch", counted |-> TRUE,
                             deleted_count |-> 0, failed_count |-> 0, tasks |-> <<>>,
                             resolveCalls |-> 0, candidates |-> <<>>]]
         ELSE BatchDelete(store, u, listing.tasks, 1, failing, 0, 0))

\* the lines "n. title (ID: id)" that the error of a resolution needing
\* confirmation is made of, one per match
TaskList(matches) == [i \in 1..Len(matches) |-> [title |-> matches[i].title, id |-> matches[i].id]]

\* the single-task part of _execute_delete_task and _execute_complete_task:
\* the task id to act on, 0 with the error to return when there is none
TargetTask(store, u, params, required) ==
  IF params.task_id = 0 /\ params.task_reference # <<>>
    THEN With(Resolve(store, u, params), LAMBDA r :
           IF r.error # ""
             THEN [id |-> 0, error |-> r.error, resolved |-> 1, candidates |-> <<>>]
           ELSE IF r.confirmation_needed
             THEN [id |-> 0, error |-> "Multiple tasks found", resolved |-> 1,
                   candidates |-> TaskList(r.matches)]
           ELSE IF r.task_ids # <<>>
             THEN [id |-> r.task_ids[1], error |-> "", resolved |-> 1, candidates |-> <<>>]
           ELSE [id |-> 0, error |-> required, resolved |-> 1, candidates |-> <<>>])
  ELSE IF params.task_id = 0
    THEN [id |-> 0, error |-> required, resolved |-> 0, candidates |-> <<>>]
  ELSE [id |-> params.task_id, error |-> "", resolved |-> 0, candidates |-> <<>>]

ExecuteDeleteTask(store, u, params, failing) ==
  IF params.batch_delete /\ params.filter_completed
    THEN ExecuteBatchDelete(store, u, BatchListArguments, failing)
  ELSE With(TargetTask(store, u, params, "Task ID is required to delete"), LAMBDA t :
         With(IF t.id = 0 THEN [store |-> store, success |-> FALSE, error |-> t.error]
              ELSE DeleteTaskTool(store, u, t.id, failing), LAMBDA d :
           [Outcome(d.store, d.success, d.error, "single")
              EXCEPT !.result.resolveCalls = t.resolved, !.result.candidates = t.candidates]))

ExecuteCompleteTask(store, u, params) ==
  With(TargetTask(store, u, params, "Task ID is required to mark as complete"), LAMBDA t :
    With(IF t.id = 0 THEN [store |-> store, success |-> FALSE, error |-> t.error]
         ELSE CompleteTaskTool(store, u, t.id,
                               IF Has(params, "completed") THEN params.completed ELSE TRUE),
         LAMBDA c :
      [Outcome(c.store, c.success, c.error, "single")
         EXCEPT !.result.resolveCalls = t.resolved, !.result.candidates = t.candidates]))

\* an update that fails without saying why when no id is given
ExecuteUpdateTaskSilently(store, u, params) ==
  IF params.task_id = 0 THEN Outcome(store, FALSE, "", "single")
  ELSE With(UpdateTaskTool(store, u, params.task_id, params.title, params.priority),
            LAMBDA r : Outcome(r.store, r.success, r.error, "single"))

ExecuteUpdateTask(store, u, params) ==
  IF params.task_id = 0 THEN Outcome(store, FALSE, "Task ID is required to update", "single")
  ELSE With(UpdateTaskTool(store, u, params.task_id, params.title, params.priority),
            LAMBDA r : Outcome(r.store, r.success, r.error, "single"))

ExecuteCreateTask(store, u, params) ==
  IF params.title = <<>> THEN Outcome(store, FALSE, "Task title is required", "create")
  ELSE With(AddTaskTool(store, u, params.title,
                        IF Has(params, "priority") THEN params.priority ELSE "medium"),
            LAMBDA r : Outcome(r.store, r.success, r.error, "create"))

ExecuteListTasks(store, u, params) ==
  With(ListTasks(store, u,
                 IF Has(params, "completed") /\ params.completed THEN "completed"
                 ELSE IF ~Has(params, "filter_completed") THEN "all"
                 ELSE IF params.filter_completed THEN "completed"
                 ELSE "pending",
                 params.priority, DefaultLimit), LAMBDA listing :
    [store |-> store,
     result |-> [success |-> listing.success, error |-> listing.error, path |-> "list",
                 counted |-> FALSE, deleted_count |-> 0, failed_count |-> 0,
                 tasks |-> listing.tasks, resolveCalls |-> 0, candidates |-> <<>>]])

\* ActionAgent.execute
Execute(store, intent, params, u, failing) ==
  CASE intent = "create_task"   -> ExecuteCreateTask(store, u, params)
    [] intent = "list_tasks"    -> ExecuteListTasks(store, u, params)
    [] intent = "complete_task" -> ExecuteCompleteTask(store, u, params)
    [] intent = "delete_task"   -> ExecuteDeleteTask(store, u, params, failing)
    [] intent = "update_task"   -> ExecuteUpdateTask(store, u, params)
    [] intent = "unclear"       -> Outcome(store, FALSE, "Could not determine what action to take", "unclear")
    [] OTHER                    -> Outcome(store, FALSE, "Unknown intent", "unknown")

---------------------------------------------------------------------------
(* IntentClassifierAgent (agents/intent_classifier.py).  The remote call   *)
(* is the environment: each call gives one reply,                          *)
(*   kind "json"      the reply parses to the classification in result,    *)
(*   kind "malformed" the reply is not JSON (json.loads raises             *)
(*                    JSONDecodeError),                                    *)
(*   kind "error"     the call itself raises,                              *)
(* and signal tells whether the text of the exception holds one of the     *)
(* markers ResourceExhausted, 429, quota.                                  *)

MaxRetries == 1

\* the except clauses of classify(), in source order
Handlers == <<"Exception", "JSONDecodeError", "Exception">>

IsInstance(exception, class) == class = "Exception" \/ class = exception

\* the clause Python runs: the first one whose class the exception is an
\* instance of
HandlerFor(exception) ==
  Min({n \in 1..Len(Handlers) : IsInstance(exception, Handlers[n])})

Raised(reply) == IF reply.kind = "malformed" THEN "JSONDecodeError" ELSE "APIError"

Unparsed ==
  [intent |-> "unclear", confidence |-> 0, entities |-> NoEntities, error |-> TRUE]

\* a classifier that takes no failure for a rate limit
NeverTransient(reply) == FALSE

\* the test of the first except clause: the text of the exception holds
\* ResourceExhausted, 429 or quota
IsTransient(reply) == reply.signal

\* the retry loop from attempt n (0-based) on: the classification, the
\* number of remote calls made and of calls of the fallback classifier
RECURSIVE ClassifyFrom(_, _, _)
ClassifyFrom(message, replies, n) ==
  LET reply    == replies[n + 1]
      fallback == [result |-> RuleBasedClassify(message), calls |-> n + 1, fallbacks |-> 1]
  IN  IF reply.kind = "json"
        THEN [result |-> reply.result, calls |-> n + 1, fallbacks |-> 0]
      ELSE IF HandlerFor(Raised(reply)) = 1
        THEN IF IsTransient(reply) /\ n < MaxRetries
               THEN ClassifyFrom(message, replies, n + 1)
               ELSE fallback
      ELSE [result |-> Unparsed, calls |-> n + 1, fallbacks |-> 0]

\* IntentClassifierAgent.classify
Classify(message, replies) == ClassifyFrom(message, replies, 0)

\* one pass of the retry loop that never gives up on a rate limit
AttemptWithoutLimit(message, reply, n) ==
  IF reply.kind = "json"
    THEN [again |-> FALSE, result |-> reply.result, fallbacks |-> 0]
  ELSE IF HandlerFor(Raised(reply)) = 1
    THEN IF IsTransient(reply)
           THEN [again |-> TRUE, result |-> Unparsed, fallbacks |-> 0]
           ELSE [again |-> FALSE, result |-> RuleBasedClassify(message), fallbacks |-> 1]
  ELSE [again |-> FALSE, result |-> Unparsed, fallbacks |-> 0]

\* one pass of the retry loop, attempt n (0-based), on the reply of its
\* remote call: whether the loop goes round again (continue) or classify
\* returns result, and whether the fallback classifier was called
Attempt(message, reply, n) ==
  IF reply.kind = "json"
    THEN [again |-> FALSE, result |-> reply.result, fallbacks |-> 0]
  ELSE IF HandlerFor(Raised(reply)) = 1
    THEN IF IsTransient(reply) /\ n < MaxRetries
           THEN [again |-> TRUE, result |-> Unparsed, fallbacks |-> 0]
           ELSE [again |-> FALSE, result |-> RuleBasedClassify(message), fallbacks |-> 1]
  ELSE [again |-> FALSE, result |-> Unparsed, fallbacks |-> 0]

---------------------------------------------------------------------------
(* ChatbotService (services/chatbot_service.py)                            *)

ConfidenceGate == 70

MaxListed == 5

\* a gate that also stops a confidence equal to the threshold
AtOrBelowGate(confidence) == confidence <= ConfidenceGate

\* the confidence gate of process_message
BelowGate(confidence) == confidence < ConfidenceGate

ResolvedIntents == {"complete_task", "delete_task", "update_task"}

\* a lookup of the conversation by its id alone
GetOrCreateConversationOfAnyUser(convs, u, cid) ==
  IF cid # 0 /\ cid \in 1..Len(convs)
    THEN [id |-> cid, convs |-> [convs EXCEPT ![cid].updated = @ + 1]]
    ELSE [id |-> Len(convs) + 1,
          convs |-> Append(convs, [user |-> u, deleted |-> FALSE, updated |-> 0])]

\* _get_or_create_conversation: cid 0 stands for None; the conversation used
\* and the table after the commit
GetOrCreateConversation(convs, u, cid) ==
  IF cid # 0 /\ cid \in 1..Len(convs) /\ convs[cid].user = u /\ ~convs[cid].deleted
    THEN [id |-> cid, convs |-> [convs EXCEPT ![cid].updated = @ + 1]]
    ELSE [id |-> Len(convs) + 1,
          convs |-> Append(convs, [user |-> u, deleted |-> FALSE, updated |-> 0])]

\* a save whose commit holds the row of the user alone
SaveUserMessageFirst(msgs, convs, cid, u) ==
  [messages |-> Append(msgs, [conversation |-> cid, user |-> u, role |-> "user"]),
   convs |-> [convs EXCEPT ![cid].updated = @ + 1]]

\* _save_messages: both rows and the conversation's updated_at, one commit
SaveMessages(msgs, convs, cid, u) ==
  [messages |-> msgs \o << [conversation |-> cid, user |-> u, role |-> "user"],
                           [conversation |-> cid, user |-> u, role |-> "assistant"] >>,
   convs |-> [convs EXCEPT ![cid].updated = @ + 1]]

\* a reply with one line for every match
FormatEveryMatch(matches) ==
  [i \in 1..Len(matches) |-> [title |-> matches[i].title, id |-> matches[i].id]]

\* _format_confirmation_request: the lines of the reply, one per listed match
FormatConfirmationRequest(matches) ==
  [i \in 1..(IF Len(matches) < MaxListed THEN Len(matches) ELSE MaxListed) |->
     [title |-> matches[i].title, id |-> matches[i].id]]

\* process_message after the conversation is resolved: the store after the
\* turn and what the turn did
Turn(store, u, message, replies) ==
  With(Classify(message, replies), LAMBDA c :
  With(c.result.intent \in ResolvedIntents /\ ~Has(c.result.entities, "task_id"), LAMBDA needs :
  With([classification |-> c.result, remoteCalls |-> c.calls, fallbacks |-> c.fallbacks,
        resolveCalls |-> 0, executeCalls |-> 0,
        resolution |-> Resolution(<<>>, FALSE, <<>>, "", <<>>),
        tool |-> Outcome(store, FALSE, "", "none").result, listed |-> <<>>, store |-> store,
        executed |-> NoEntities,
        path |-> "low_confidence", intent |-> "unclear", success |-> FALSE], LAMBDA low :
    IF BelowGate(c.result.confidence) THEN low
    ELSE With(IF needs THEN Resolve(store, u, c.result.entities) ELSE low.resolution, LAMBDA r :
      IF needs /\ r.confirmation_needed
        THEN [low EXCEPT !.resolveCalls = 1, !.resolution = r,
                         !.listed = FormatConfirmationRequest(r.matches),
                         !.path = "confirmation", !.intent = c.result.intent]
      ELSE IF needs /\ r.task_ids = <<>> /\ r.error # ""
        THEN [low EXCEPT !.resolveCalls = 1, !.resolution = r,
                         !.path = "resolver_error", !.intent = c.result.intent]
      ELSE With(Execute(store, c.result.intent,
                        IF needs /\ r.task_ids # <<>>
                          THEN WithId(c.result.entities, r.task_ids[1])
                          ELSE c.result.entities,
                        u, {}), LAMBDA x :
        [low EXCEPT !.resolveCalls = (IF needs THEN 1 ELSE 0) + x.result.resolveCalls,
                    !.resolution = r, !.executeCalls = 1, !.tool = x.result,
                    !.executed = (IF needs /\ r.task_ids # <<>>
                                    THEN WithId(c.result.entities, r.task_ids[1])
                                    ELSE c.result.entities),
                    !.store = x.store, !.path = "executed", !.intent = c.result.intent,
                    !.success = x.result.success])))))

\* an identifier as the text str(uuid) gives, and a text that is no uuid
Str(id) == [uuid |-> TRUE, number |-> id, text |-> ""]

Text(t) == [uuid |-> FALSE, number |-> 0, text |-> t]

\* a user id or conversation id that UUID() does not parse
MalformedId == "not-a-uuid"

\* UUID(user_id) returns: it raises ValueError on a text that is no uuid
IsUuid(u) == u # MalformedId

\* the stages of a turn whose database call can raise
Faults == {"none", "get_or_create", "save_messages"}

\* the dict process_message returns; response is the kind of reply text
Envelope(response, cid, intent, success) ==
  [response |-> response, conversation_id |-> cid, intent |-> intent, success |-> success]

\* the except clause of process_message: conversation_id or "error", where
\* cid 0 stands for None and -1 for a text that is no uuid
ErrorEnvelope(cid) ==
  Envelope("error",
           IF cid = 0 THEN Text("error") ELSE IF cid = -1 THEN Text(MalformedId) ELSE Str(cid),
           "error", FALSE)

\* the number of messages classify puts into the prompt
HistoryLimit == 10

\* conversation_history[-n:]
LastOf(history, n) ==
  IF Len(history) <= n THEN history ELSE SubSeq(history, Len(history) - n + 1, Len(history))

\* the rows of a conversation in the messages table, oldest first
ConversationMessages(msgs, cid) == SelectSeq(msgs, LAMBDA m : m.conversation = cid)

\* the conversation_history argument of the classify call of
\* process_message: the call passes message, user_id and correlation_id,
\* and the parameter keeps its default None, written <<>>
HistoryArgument(msgs, cid) == <<>>

\* the messages classify writes under RECENT CONVERSATION
PromptHistory(history) == IF history # <<>> THEN LastOf(history, HistoryLimit) ELSE <<>>

\* process_message as a whole: the tables after the call, the envelope
\* returned, the conversation the turn used (0 when it got none) and
\* whether _save_messages committed.  fault names the stage whose database
\* call raises; what was committed before it stays committed
ProcessMessageCall(store, convs, msgs, u, message, cid, replies, fault) ==
  IF ~IsUuid(u) \/ cid = -1 \/ fault = "get_or_create"
    THEN [tasks |-> store, conversations |-> convs, messages |-> msgs,
          envelope |-> ErrorEnvelope(cid), conversation |-> 0, saved |-> FALSE,
          history |-> <<>>]
  ELSE With(GetOrCreateConversation(convs, u, cid), LAMBDA g :
       With(Turn(store, u, message, replies), LAMBDA t :
         IF fault = "save_messages"
           THEN [tasks |-> t.store, conversations |-> g.convs, messages |-> msgs,
                 envelope |-> ErrorEnvelope(cid), conversation |-> g.id, saved |-> FALSE,
                 history |-> PromptHistory(HistoryArgument(msgs, g.id))]
         ELSE With(SaveMessages(msgs, g.convs, g.id, u), LAMBDA s :
                [tasks |-> t.store, conversations |-> s.convs, messages |-> s.messages,
                 envelope |-> Envelope(t.path, Str(g.id), t.intent, t.success),
                 conversation |-> g.id, saved |-> TRUE,
                 history |-> PromptHistory(HistoryArgument(msgs, g.id))])))

---------------------------------------------------------------------------
(* RateLimiter (middleware/rate_limiter.py).  requests maps a user to the  *)
(* timestamps recorded for the user, oldest first; time is in seconds.     *)

\* the comprehension of is_allowed and get_remaining: the timestamps after
\* the cutoff t - window
InWindow(stamps, t, window) == SelectSeq(stamps, LAMBDA stamp : stamp > t - window)

\* a limiter that records the refused requests as well
IsAllowedRecordingAll(reqs, u, t, max, window) ==
  [requests |-> [reqs EXCEPT ![u] = Append(InWindow(reqs[u], t, window), t)],
   allowed |-> Len(InWindow(reqs[u], t, window)) < max]

\* RateLimiter.is_allowed called at time t: the requests after the call and
\* the answer
IsAllowed(reqs, u, t, max, window) ==
  With(InWindow(reqs[u], t, window), LAMBDA kept :
    IF Len(kept) >= max
      THEN [requests |-> [reqs EXCEPT ![u] = kept], allowed |-> FALSE]
      ELSE [requests |-> [reqs EXCEPT ![u] = Append(kept, t)], allowed |-> TRUE])

\* RateLimiter.get_remaining called at time t
GetRemaining(reqs, u, t, max, window) ==
  With(InWindow(reqs[u], t, window), LAMBDA kept :
    [requests |-> [reqs EXCEPT ![u] = kept],
     remaining |-> IF max - Len(kept) > 0 THEN max - Len(kept) ELSE 0])

\* is_allowed statement by statement, as a request handler runs it: the
\* assignment of the pruned list, the test of the limit, the append
PruneStep(reqs, u, t, window) == [reqs EXCEPT ![u] = InWindow(@, t, window)]

LimitReached(reqs, u, max) == Len(reqs[u]) >= max

RecordStep(reqs, u, t) == [reqs EXCEPT ![u] = Append(@, t)]

\* a scheduler that switches handlers between any two statements
MayRunPreemptively(calls, c) == TRUE

\* the event loop: chat() is a coroutine and calls is_allowed, which holds no
\* await, so a handler runs its statements only while no other handler is
\* between the statements of its call
MayRun(calls, c) == \A d \in DOMAIN calls : d # c => calls[d].pc = "idle"


---------------------------------------------------------------------------
(* Bounds and the inputs the environment draws from.                       *)

MaxTasks == 2

MaxTurns == 1

BulkExtra == 1

MaxConversations == 1

TurnCap == 2

StoreCap == 3

MaxRequests == 2

WindowSeconds == 2

MaxTime == 3

MaxCalls == 5

MaxCoroutines == 2

MaxAttempts == 3

MaxCallers == 2

MaxWords == 3

Users == {"u1", "u2"}

Titles == {TaskTitle.buy_groceries, TaskTitle.grocery_shopping, TaskTitle.call_mom}

UserMessages ==
  {UserMessage.delete_the_grocery_one, UserMessage.delete_completed_tasks, UserMessage.hey,
   UserMessage.delete_grocery_shopping, UserMessage.add_task_call_mom,
   UserMessage.mark_task_1_as_done}

References ==
  {<<>>, Reference.the_grocery_one, Reference.grocer, Reference.grocery_shop,
   Reference.call_mom_today, Reference.first, Reference.last}

Intents ==
  {"create_task", "list_tasks", "update_task", "delete_task", "complete_task", "unclear"}

Confidences == {0, 69, 70, 95}

\* entity sets of a remote classification
RemoteEntities ==
  {NoEntities, WithBatch(NoEntities), WithId(NoEntities, 1),
   WithReference(NoEntities, Reference.the_grocery_one),
   WithReference(NoEntities, Reference.grocer), WithTitle(NoEntities, TaskTitle.call_mom)}

Parsed(i, c, e) == [intent |-> i, confidence |-> c, entities |-> e, error |-> FALSE]

RemoteResults == {Parsed(i, c, e) : i \in Intents, c \in Confidences, e \in RemoteEntities}

\* the classifications the turns of SpecChat are given
TurnResults ==
  {Parsed(i, c, e) : i \in {"delete_task", "complete_task", "create_task", "unclear"},
                     c \in {69, 70}, e \in RemoteEntities}

Failure(k, s) == [kind |-> k, signal |-> s, result |-> Unparsed]

Failures == {Failure(k, s) : k \in {"malformed", "error"}, s \in BOOLEAN}

Json(r) == [kind |-> "json", signal |-> FALSE, result |-> r]

\* the replies of the remote calls of one classification, in order: there is
\* a second one only when the first makes the agent call again
ReplySequences(results, retried) ==
  {<<a>> : a \in {Json(r) : r \in results} \cup {f \in Failures : ~f.signal}}
    \cup {<<a, b>> : a \in {f \in Failures : f.signal},
                     b \in {Json(r) : r \in retried} \cup Failures}

ClassifyReplies == ReplySequences(RemoteResults, RemoteResults)

\* the turns of SpecChat, <<message, replies>>: the message counts only when
\* the remote call fails, so one message goes with the parsed replies
TurnInputs ==
  {<<UserMessage.hey, <<Json(r)>> >> : r \in TurnResults}
    \cup {<<m, rs>> : m \in {UserMessage.delete_the_grocery_one,
                             UserMessage.delete_completed_tasks, UserMessage.hey},
                      rs \in ReplySequences({}, {Parsed("delete_task", 95, WithBatch(NoEntities))})}

\* entity sets handed to the resolver and to the action agent directly
TaskIds == {0, 1, 3}

ResolverEntities ==
  {[NoEntities EXCEPT !.keys = k, !.task_id = IF "task_id" \in k THEN n ELSE 0,
                      !.task_reference = IF "task_reference" \in k THEN r ELSE <<>>] :
     k \in SUBSET {"task_id", "task_reference"}, n \in TaskIds, r \in References}

ActionParameters ==
  {WithBatch(NoEntities), NoEntities, WithId(NoEntities, 1),
   WithReference(NoEntities, Reference.grocer)}

\* the parameters of the calls of SpecExecute
ExecuteParameters ==
  ActionParameters \cup {WithReference(NoEntities, Reference.call_mom_today),
                         WithTitle(NoEntities, TaskTitle.call_mom)}

\* the intents ActionAgent.execute is called with, one of them unknown to it
ActionIntents == (Intents \ {"list_tasks"}) \cup {"archive_task"}

Task(id, u, title, completed, deleted) ==
  [id |-> id, user |-> u, title |-> title, completed |-> completed, deleted |-> deleted,
   priority |-> "medium", recurring |-> FALSE]

\* the stores of at most n tasks that the task tools build
RECURSIVE Stores(_)
Stores(n) ==
  IF n = 0 THEN {<<>>}
  ELSE Stores(n - 1) \cup
       {Append(s, Task(Len(s) + 1, u, title, completed, deleted)) :
          s \in {x \in Stores(n - 1) : Len(x) = n - 1}, u \in Users, title \in Titles,
          completed \in BOOLEAN, deleted \in BOOLEAN}

\* more tasks of one user than a listing returns: the oldest is the only
\* one named Call mom
BulkStore ==
  [i \in 1..(DefaultLimit + BulkExtra) |->
     Task(i, "u1", IF i = 1 THEN TaskTitle.call_mom ELSE TaskTitle.buy_groceries, FALSE, FALSE)]

Idle == [op |-> "none"]

\* RateLimiter.__init__: no request of any user is recorded
NoRequests == [u \in Users |-> <<>>]

---------------------------------------------------------------------------
(* The task tools and the action agent, from an empty database.  tasks,    *)
(* conversations and messages are the tables; last records the last        *)
(* operation, its inputs and what it returned.                             *)

Init ==
  /\ tasks = <<>>
  /\ conversations = <<>>
  /\ messages = <<>>
  /\ requests = NoRequests
  /\ now = 0
  /\ last = Idle

\* the add_task tool called by a client
AddTask(u, title) ==
  /\ Len(tasks) < MaxTasks
  /\ tasks' = AddTaskTool(tasks, u, title, "medium").store
  /\ last' = [op |-> "add_task"]
  /\ UNCHANGED <<conversations, messages, requests, now>>

\* the complete_task tool called by a client
CompleteTask(u, id, completed) ==
  /\ tasks' = CompleteTaskTool(tasks, u, id, completed).store
  /\ last' = [op |-> "complete_task"]
  /\ UNCHANGED <<conversations, messages, requests, now>>

\* the delete_task tool called by a client
DeleteTask(u, id) ==
  /\ tasks' = DeleteTaskTool(tasks, u, id, {}).store
  /\ last' = [op |-> "delete_task"]
  /\ UNCHANGED <<conversations, messages, requests, now>>

\* ActionAgent.execute called on its own
ExecuteAction(u, intent, params, failing) ==
  /\ last' = [op |-> "execute", user |-> u, intent |-> intent, params |-> params,
              failing |-> failing, outcome |-> Execute(tasks, intent, params, u, failing),
              tasksBefore |-> tasks]
  /\ tasks' = last'.outcome.store
  /\ UNCHANGED <<conversations, messages, requests, now>>

Next ==
  \/ \E u \in Users, title \in Titles : AddTask(u, title)
  \/ \E u \in Users, id \in 1..MaxTasks, completed \in BOOLEAN : CompleteTask(u, id, completed)
  \/ \E u \in Users, id \in 1..MaxTasks : DeleteTask(u, id)
  \/ \E u \in Users, intent \in {"delete_task", "complete_task"}, params \in ActionParameters,
        failing \in {{}, {1}} :
       ExecuteAction(u, intent, params, failing)

Spec == Init /\ [][Next]_vars

---------------------------------------------------------------------------
(* ChatbotService.process_message, over the stores the tools build.        *)

InitChat ==
  /\ tasks \in Stores(MaxTasks)
  /\ conversations = <<>>
  /\ messages = <<>>
  /\ requests = NoRequests
  /\ now = 0
  /\ last = Idle

ProcessMessage(u, message, cid, replies) ==
  /\ Len(messages) < 2 * MaxTurns
  /\ last' = [op |-> "process_message", user |-> u, message |-> message, replies |-> replies,
              conversation |-> GetOrCreateConversation(conversations, u, cid).id,
              turn |-> Turn(tasks, u, message, replies),
              tasksBefore |-> tasks, messagesBefore |-> Len(messages)]
  /\ tasks' = last'.turn.store
  /\ With(GetOrCreateConversation(conversations, u, cid), LAMBDA g :
          With(SaveMessages(messages, g.convs, g.id, u), LAMBDA s :
            conversations' = s.convs /\ messages' = s.messages))
  /\ UNCHANGED <<requests, now>>

NextChat ==
  \E u \in Users, cid \in 0..(Len(conversations) + 1), turn \in TurnInputs :
    ProcessMessage(u, turn[1], cid, turn[2])

SpecChat == InitChat /\ [][NextChat]_vars

---------------------------------------------------------------------------
(* ActionAgent.execute with every intent, one call on each store the tools *)
(* build.                                                                  *)

InitExecute ==
  /\ tasks \in Stores(MaxTasks)
  /\ conversations = <<>>
  /\ messages = <<>>
  /\ requests = NoRequests
  /\ now = 0
  /\ last = Idle

NextExecute ==
  \E u \in Users, intent \in ActionIntents, params \in ExecuteParameters, failing \in {{}, {1}} :
    last = Idle /\ ExecuteAction(u, intent, params, failing)

SpecExecute == InitExecute /\ [][NextExecute]_vars

---------------------------------------------------------------------------
(* process_message on the turns that name a task by a reference, over the  *)
(* stores the tools build and a store with more tasks than a reply lists.  *)

\* the entity sets of these turns; a task_id of 0 stands for the JSON null
ReferEntities ==
  {NoEntities, WithId(NoEntities, 1), WithReference(NoEntities, Reference.grocer),
   WithReference(NoEntities, Reference.call_mom_today),
   WithId(WithReference(NoEntities, Reference.grocer), 0),
   WithTitle(NoEntities, TaskTitle.call_mom)}

ReferResults ==
  {Parsed(i, c, e) : i \in Intents \ {"unclear"}, c \in {69, 70}, e \in ReferEntities}

ReferInputs == {<<UserMessage.hey, <<Json(r)>> >> : r \in ReferResults}

InitRefer ==
  /\ tasks \in Stores(MaxTasks) \cup {BulkStore}
  /\ conversations = <<>>
  /\ messages = <<>>
  /\ requests = NoRequests
  /\ now = 0
  /\ last = Idle

\* one turn on each store
NextRefer ==
  \E u \in Users, turn \in ReferInputs :
    last = Idle /\ ProcessMessage(u, turn[1], 0, turn[2])

SpecRefer == InitRefer /\ [][NextRefer]_vars

---------------------------------------------------------------------------
(* IntentClassifierAgent.classify, over every message and reply sequence.  *)

InitClassify ==
  /\ tasks = <<>>
  /\ conversations = <<>>
  /\ messages = <<>>
  /\ requests = NoRequests
  /\ now = 0
  /\ last \in {[op |-> "asked", message |-> m, replies |-> rs] :
                 m \in UserMessages, rs \in ClassifyReplies}

ClassifyMessage ==
  /\ last.op = "asked"
  /\ last' = [op |-> "classify", message |-> last.message, replies |-> last.replies,
              result |-> Classify(last.message, last.replies)]
  /\ UNCHANGED <<tasks, conversations, messages, requests, now>>

NextClassify == ClassifyMessage

SpecClassify == InitClassify /\ [][NextClassify]_vars

---------------------------------------------------------------------------
(* TaskResolutionAgent.resolve, over the stores the tools build.           *)

InitResolve ==
  /\ tasks \in Stores(MaxTasks) \cup {BulkStore}
  /\ conversations = <<>>
  /\ messages = <<>>
  /\ requests = NoRequests
  /\ now = 0
  /\ last \in {[op |-> "asked", user |-> u, entities |-> e] :
                 u \in Users, e \in ResolverEntities}

ResolveEntities ==
  /\ last.op = "asked"
  /\ last' = [op |-> "resolve", user |-> last.user, entities |-> last.entities,
              result |-> Resolve(tasks, last.user, last.entities)]
  /\ UNCHANGED <<tasks, conversations, messages, requests, now>>

NextResolve == ResolveEntities

SpecResolve == InitResolve /\ [][NextResolve]_vars

---------------------------------------------------------------------------
(* ChatbotService.process_message with its except clause, over the         *)
(* conversations table as earlier turns and the soft deletion of           *)
(* conversations leave it.  The caller passes any text for the user id and *)
(* the conversation id, and a database call of the turn may raise.         *)

\* the conversations tables of at most n rows
RECURSIVE ConversationTables(_)
ConversationTables(n) ==
  IF n = 0 THEN {<<>>}
  ELSE ConversationTables(n - 1) \cup
       {Append(t, [user |-> u, deleted |-> d, updated |-> 0]) :
          t \in {x \in ConversationTables(n - 1) : Len(x) = n - 1}, u \in Users, d \in BOOLEAN}

\* the messages of the turns, classified by the rule-based classifier
\* after a remote call that fails
FaultyTurnMessages == {UserMessage.hey, UserMessage.add_task_call_mom}

InitTurn ==
  /\ tasks = <<>>
  /\ conversations \in ConversationTables(MaxConversations)
  /\ messages = <<>>
  /\ requests = NoRequests
  /\ now = 0
  /\ last = [op |-> "none", served |-> 0]

ChatTurn(u, message, cid, fault) ==
  /\ last.served < TurnCap
  /\ With(ProcessMessageCall(tasks, conversations, messages, u, message, cid,
                             <<Failure("error", FALSE)>>, fault), LAMBDA r :
       /\ tasks' = r.tasks
       /\ conversations' = r.conversations
       /\ messages' = r.messages
       /\ last' = [op |-> "chat", served |-> last.served + 1, user |-> u, message |-> message,
                   given |-> cid, fault |-> fault, envelope |-> r.envelope,
                   conversation |-> r.conversation, saved |-> r.saved,
                   history |-> r.history,
                   tasksBefore |-> tasks, conversationsBefore |-> conversations,
                   messagesBefore |-> messages])
  /\ UNCHANGED <<requests, now>>

\* the calls of a turn, <<user id, message, conversation id, fault>>: a text
\* that is no uuid raises before anything else is looked at
TurnCalls(convs) ==
  {<<u, m, cid, f>> : u \in Users, m \in FaultyTurnMessages, cid \in 0..(Len(convs) + 1),
                      f \in Faults}
    \cup {<<MalformedId, UserMessage.hey, cid, "none">> : cid \in {0, 1}}
    \cup {<<u, UserMessage.hey, -1, "none">> : u \in Users}

NextTurn ==
  \E call \in TurnCalls(conversations) : ChatTurn(call[1], call[2], call[3], call[4])

SpecTurn == InitTurn /\ [][NextTurn]_vars

---------------------------------------------------------------------------
(* A RateLimiter(max_requests = MaxRequests, window_seconds =               *)
(* WindowSeconds) and its clock.  last.log is the list of the is_allowed    *)
(* calls made so far, each with its user, its time and its answer.          *)

InitRate ==
  /\ tasks = <<>>
  /\ conversations = <<>>
  /\ messages = <<>>
  /\ requests = NoRequests
  /\ now = 0
  /\ last = [op |-> "none", log |-> <<>>]

\* is_allowed(user_id)
CallIsAllowed(u) ==
  /\ Len(last.log) < MaxCalls
  /\ With(IsAllowed(requests, u, now, MaxRequests, WindowSeconds), LAMBDA r :
       /\ requests' = r.requests
       /\ last' = [op |-> "is_allowed", user |-> u, at |-> now, allowed |-> r.allowed,
                   log |-> Append(last.log, [user |-> u, at |-> now, allowed |-> r.allowed])])
  /\ UNCHANGED <<tasks, conversations, messages, now>>

\* get_remaining(user_id)
CallGetRemaining(u) ==
  /\ With(GetRemaining(requests, u, now, MaxRequests, WindowSeconds), LAMBDA r :
       /\ requests' = r.requests
       /\ last' = [op |-> "get_remaining", user |-> u, at |-> now,
                   remaining |-> r.remaining, log |-> last.log])
  /\ UNCHANGED <<tasks, conversations, messages, now>>

\* datetime.now(timezone.utc) moves on by a second
Tick ==
  /\ now < MaxTime
  /\ now' = now + 1
  /\ last' = [op |-> "tick", log |-> last.log]
  /\ UNCHANGED <<tasks, conversations, messages, requests>>

NextRate ==
  \/ \E u \in Users : CallIsAllowed(u)
  \/ \E u \in Users : CallGetRemaining(u)
  \/ Tick

SpecRate == InitRate /\ [][NextRate]_vars

---------------------------------------------------------------------------
(* RuleBasedClassifier.classify, over the messages of at most MaxWords     *)
(* words drawn from the keyword families and a few other words.           *)

RuleWords ==
  {Keyword.show, Keyword.delete, Keyword.remove, Keyword.trash, Keyword.cancel,
   Keyword.completed, Keyword.done, Keyword.finished, Keyword.mark, Keyword.add,
   Keyword.update, Keyword.task, Keyword.my, Reference.grocer}

\* the words of a sequence with a blank between them
RECURSIVE Join(_)
Join(words) ==
  IF Len(words) = 0 THEN <<>>
  ELSE IF Len(words) = 1 THEN words[1]
  ELSE words[1] \o <<" ">> \o Join(Tail(words))

RuleMessages ==
  UNION {{Join(ws) : ws \in [1..n -> RuleWords]} : n \in 1..MaxWords}

InitRules ==
  /\ tasks = <<>>
  /\ conversations = <<>>
  /\ messages = <<>>
  /\ requests = NoRequests
  /\ now = 0
  /\ last \in {[op |-> "said", message |-> m] : m \in RuleMessages}

RuleClassify ==
  /\ last.op = "said"
  /\ last' = [op |-> "rules", message |-> last.message,
              result |-> RuleBasedClassify(last.message)]
  /\ UNCHANGED <<tasks, conversations, messages, requests, now>>

NextRules == RuleClassify

SpecRules == InitRules /\ [][NextRules]_vars

---------------------------------------------------------------------------
(* Simultaneous chat requests: MaxCoroutines request handlers on the event *)
(* loop, each running is_allowed statement by statement.  last.calls holds  *)
(* each handler's position, user and timestamp; last.log the finished      *)
(* calls.                                                                  *)

Coroutines == 1..MaxCoroutines

IdleCall == [pc |-> "idle", user |-> "", at |-> 0]

InitLoop ==
  /\ tasks = <<>>
  /\ conversations = <<>>
  /\ messages = <<>>
  /\ requests = NoRequests
  /\ now = 0
  /\ last = [op |-> "none", log |-> <<>>, calls |-> [c \in Coroutines |-> IdleCall]]

\* the calls finished or under way
Started == Len(last.log) + Cardinality({c \in Coroutines : last.calls[c].pc # "idle"})

\* now = datetime.now(timezone.utc); cutoff = now - self.window
EnterIsAllowed(c, u) ==
  /\ last.calls[c].pc = "idle"
  /\ MayRun(last.calls, c)
  /\ Started < MaxCalls
  /\ last' = [last EXCEPT !.op = "enter",
                          !.calls[c] = [pc |-> "prune", user |-> u, at |-> now]]
  /\ UNCHANGED <<tasks, conversations, messages, requests, now>>

\* self.requests[user_id] = [timestamp for ... if timestamp > cutoff]
Prune(c) ==
  /\ last.calls[c].pc = "prune"
  /\ MayRun(last.calls, c)
  /\ requests' = PruneStep(requests, last.calls[c].user, last.calls[c].at, WindowSeconds)
  /\ last' = [last EXCEPT !.op = "prune", !.calls[c].pc = "check"]
  /\ UNCHANGED <<tasks, conversations, messages, now>>

\* if len(self.requests[user_id]) >= self.max_requests: return False
Check(c) ==
  /\ last.calls[c].pc = "check"
  /\ MayRun(last.calls, c)
  /\ IF LimitReached(requests, last.calls[c].user, MaxRequests)
       THEN last' = [op |-> "refused",
                     log |-> Append(last.log, [user |-> last.calls[c].user,
                                               at |-> last.calls[c].at, allowed |-> FALSE]),
                     calls |-> [last.calls EXCEPT ![c] = IdleCall]]
       ELSE last' = [last EXCEPT !.op = "check", !.calls[c].pc = "record"]
  /\ UNCHANGED <<tasks, conversations, messages, requests, now>>

\* self.requests[user_id].append(now); return True
Record(c) ==
  /\ last.calls[c].pc = "record"
  /\ MayRun(last.calls, c)
  /\ requests' = RecordStep(requests, last.calls[c].user, last.calls[c].at)
  /\ last' = [op |-> "allowed",
              log |-> Append(last.log, [user |-> last.calls[c].user,
                                        at |-> last.calls[c].at, allowed |-> TRUE]),
              calls |-> [last.calls EXCEPT ![c] = IdleCall]]
  /\ UNCHANGED <<tasks, conversations, messages, now>>

\* the clock moves on by a second, whatever the handlers are doing
LoopTick ==
  /\ now < MaxTime
  /\ now' = now + 1
  /\ last' = [last EXCEPT !.op = "tick"]
  /\ UNCHANGED <<tasks, conversations, messages, requests>>

NextLoop ==
  \/ \E c \in Coroutines, u \in Users : EnterIsAllowed(c, u)
  \/ \E c \in Coroutines : Prune(c)
  \/ \E c \in Coroutines : Check(c)
  \/ \E c \in Coroutines : Record(c)
  \/ LoopTick

SpecLoop == InitLoop /\ [][NextLoop]_vars

---------------------------------------------------------------------------
(* The MCP task tools called one at a time by two users, from an empty     *)
(* database.  last records the call, what it returned, the table before    *)
(* it, and whether it repeats the call before it.                          *)

Called(op, u, id, completed, title, priority, status, result, listed, again) ==
  [op |-> op, user |-> u, id |-> id, completed |-> completed, title |-> title,
   priority |-> priority, status |-> status,
   result |-> [success |-> result.success, error |-> result.error, tasks |-> listed],
   tasksBefore |-> tasks, again |-> again]

InitTools ==
  /\ tasks = <<>>
  /\ conversations = <<>>
  /\ messages = <<>>
  /\ requests = NoRequests
  /\ now = 0
  /\ last = Idle

\* POST /api/tasks with a recurrence_rule and a due_date: create_task of
\* the task service
CreateRecurringTask(u, title) ==
  /\ Len(tasks) < MaxTasks
  /\ tasks' = Append(tasks, [Task(Len(tasks) + 1, u, title, FALSE, FALSE)
                               EXCEPT !.recurring = TRUE])
  /\ last' = Called("create_task", u, Len(tasks) + 1, FALSE, title, "", "",
                    [success |-> TRUE, error |-> ""], <<>>, FALSE)
  /\ UNCHANGED <<conversations, messages, requests, now>>

CallAddTask(u, title) ==
  /\ Len(tasks) < MaxTasks
  /\ With(AddTaskTool(tasks, u, title, "medium"), LAMBDA r :
       /\ tasks' = r.store
       /\ last' = Called("add_task", u, Len(tasks) + 1, FALSE, title, "medium", "", r, <<>>,
                         FALSE))
  /\ UNCHANGED <<conversations, messages, requests, now>>

CallListTasks(u, status) ==
  /\ With(ListTasks(tasks, u, status, "", DefaultLimit), LAMBDA r :
       last' = Called("list_tasks", u, 0, FALSE, <<>>, "", status, r, r.tasks, FALSE))
  /\ UNCHANGED <<tasks, conversations, messages, requests, now>>

CallCompleteTask(u, id, completed) ==
  /\ With(CompleteTaskTool(tasks, u, id, completed), LAMBDA r :
       /\ Len(r.store) <= StoreCap
       /\ tasks' = r.store
       /\ last' = Called("complete_task", u, id, completed, <<>>, "", "", r, r.task,
                         /\ last.op = "complete_task"
                         /\ last.user = u /\ last.id = id /\ last.completed = completed
                         /\ last.result.success))
  /\ UNCHANGED <<conversations, messages, requests, now>>

CallUpdateTask(u, id, title, priority) ==
  /\ With(UpdateTaskTool(tasks, u, id, title, priority), LAMBDA r :
       /\ tasks' = r.store
       /\ last' = Called("update_task", u, id, FALSE, title, priority, "", r, <<>>, FALSE))
  /\ UNCHANGED <<conversations, messages, requests, now>>

CallDeleteTask(u, id) ==
  /\ With(DeleteTaskTool(tasks, u, id, {}), LAMBDA r :
       /\ tasks' = r.store
       /\ last' = Called("delete_task", u, id, FALSE, <<>>, "", "", r, <<>>, FALSE))
  /\ UNCHANGED <<conversations, messages, requests, now>>

\* the fields update_task is called with, <<title, priority>>
UpdateFields == {<<TaskTitle.buy_groceries, "">>, <<<<>>, "urgent">>}

NextTools ==
  \/ \E u \in Users : CallAddTask(u, TaskTitle.call_mom)
  \/ \E u \in Users, status \in {"all", "completed"} : CallListTasks(u, status)
  \/ \E u \in Users, id \in 1..StoreCap, completed \in BOOLEAN : CallCompleteTask(u, id, completed)
  \/ \E u \in Users, id \in 1..StoreCap, fields \in UpdateFields :
       CallUpdateTask(u, id, fields[1], fields[2])
  \/ \E u \in Users, id \in 1..StoreCap : CallDeleteTask(u, id)

SpecTools == InitTools /\ [][NextTools]_vars

---------------------------------------------------------------------------
(* complete_task over plain and recurring tasks.                           *)

NextComplete ==
  \/ \E u \in Users : CreateRecurringTask(u, TaskTitle.grocery_shopping)
  \/ \E u \in Users : CallAddTask(u, TaskTitle.call_mom)
  \/ \E u \in Users, id \in 1..StoreCap, completed \in BOOLEAN : CallCompleteTask(u, id, completed)

SpecComplete == InitTools /\ [][NextComplete]_vars

---------------------------------------------------------------------------
(* ChatbotService.process_message stage by stage: every call the turn      *)
(* makes (the conversation query, each remote classification call, the     *)
(* resolver, the action agent, the formatter, _save_messages) is a step    *)
(* that returns or raises.  last holds the position of the turn (pc), the  *)
(* locals of process_message and of classify, and the stages run (trail).  *)

StagedStores ==
  {<<>>,
   <<Task(1, "u1", TaskTitle.grocery_shopping, FALSE, FALSE)>>,
   <<Task(1, "u1", TaskTitle.grocery_shopping, FALSE, FALSE),
     Task(2, "u1", TaskTitle.buy_groceries, FALSE, FALSE)>>}

StagedMessages ==
  {UserMessage.hey, UserMessage.add_task_call_mom, UserMessage.delete_the_grocery_one}

\* what a remote call can give: every failure, and two parsed replies
StagedReplies ==
  Failures \cup {Json(Parsed("delete_task", 95, WithReference(NoEntities, Reference.grocer))),
                 Json(Parsed("list_tasks", 69, NoEntities))}

NoTurn ==
  [op |-> "turn", pc |-> "idle", served |-> 0, user |-> "", message |-> <<>>, given |-> 0,
   conversation |-> 0, replies |-> <<>>, fallbacks |-> 0, classification |-> Unparsed,
   entities |-> NoEntities, resolveCalls |-> 0, path |-> "", success |-> FALSE,
   trail |-> <<>>, envelope |-> Envelope("", Text(""), "", FALSE)]

InitStaged ==
  /\ tasks \in StagedStores
  /\ conversations = <<>>
  /\ messages = <<>>
  /\ requests = NoRequests
  /\ now = 0
  /\ last = NoTurn

\* the route calls process_message
StartTurn(u, message, cid) ==
  /\ last.pc \in {"idle", "returned"}
  /\ last.served < TurnCap
  /\ last' = [NoTurn EXCEPT !.pc = "load", !.served = last.served + 1, !.user = u,
                            !.message = message, !.given = cid]
  /\ UNCHANGED <<tasks, conversations, messages, requests, now>>

\* Step 1, _get_or_create_conversation; raising is true when its query raises
LoadConversation(raising) ==
  /\ last.pc = "load"
  /\ IF raising
       THEN /\ last' = [last EXCEPT !.pc = "returned", !.envelope = ErrorEnvelope(last.given)]
            /\ UNCHANGED conversations
       ELSE With(GetOrCreateConversation(conversations, last.user, last.given), LAMBDA g :
              /\ conversations' = g.convs
              /\ last' = [last EXCEPT !.pc = "classify", !.conversation = g.id])
  /\ UNCHANGED <<tasks, messages, requests, now>>

\* Step 2, one pass of the retry loop of classify: the remote call gives
\* reply
RemoteCall(reply) ==
  /\ last.pc = "classify"
  /\ Len(last.replies) < MaxAttempts
  /\ With(Attempt(last.message, reply, Len(last.replies)), LAMBDA a :
       last' = [last EXCEPT !.replies = Append(@, reply),
                            !.fallbacks = @ + a.fallbacks,
                            !.classification = a.result,
                            !.entities = a.result.entities,
                            !.trail = IF a.again THEN @ ELSE Append(@, "classify"),
                            !.pc = IF a.again THEN "classify" ELSE "resolve"])
  /\ UNCHANGED <<tasks, conversations, messages, requests, now>>

\* the confidence gate and Step 3, which calls the resolver for the three
\* intents that need a task when the entities hold no task_id
ResolveStage ==
  /\ last.pc = "resolve"
  /\ With(last.classification, LAMBDA c :
       IF BelowGate(c.confidence)
         THEN last' = [last EXCEPT !.pc = "persist", !.path = "low_confidence"]
       ELSE IF c.intent \in ResolvedIntents /\ ~Has(c.entities, "task_id")
         THEN With(Resolve(tasks, last.user, c.entities), LAMBDA r :
                last' = [last EXCEPT
                  !.resolveCalls = @ + 1,
                  !.trail = Append(@, "resolve"),
                  !.entities = IF r.task_ids # <<>> THEN WithId(@, r.task_ids[1]) ELSE @,
                  !.path = IF r.confirmation_needed THEN "confirmation"
                           ELSE IF r.task_ids = <<>> /\ r.error # "" THEN "resolver_error"
                           ELSE "",
                  !.pc = IF r.confirmation_needed \/ (r.task_ids = <<>> /\ r.error # "")
                           THEN "persist" ELSE "execute"])
       ELSE last' = [last EXCEPT !.pc = "execute", !.trail = Append(@, "resolve")])
  /\ UNCHANGED <<tasks, conversations, messages, requests, now>>

\* Step 4, ActionAgent.execute
ExecuteStage ==
  /\ last.pc = "execute"
  /\ With(Execute(tasks, last.classification.intent, last.entities, last.user, {}), LAMBDA x :
       /\ tasks' = x.store
       /\ last' = [last EXCEPT !.pc = "format", !.trail = Append(@, "execute"),
                               !.resolveCalls = @ + x.result.resolveCalls,
                               !.success = x.result.success])
  /\ UNCHANGED <<conversations, messages, requests, now>>

\* Step 5, ResponseFormatterAgent.format
FormatStage ==
  /\ last.pc = "format"
  /\ last' = [last EXCEPT !.pc = "persist", !.path = "executed", !.trail = Append(@, "format")]
  /\ UNCHANGED <<tasks, conversations, messages, requests, now>>

\* Step 6, _save_messages and the return; raising is true when its commit
\* raises, which the except clause of process_message turns into the error
\* envelope
PersistStage(raising) ==
  /\ last.pc = "persist"
  /\ IF raising
       THEN /\ last' = [last EXCEPT !.pc = "returned", !.trail = Append(@, "persist"),
                                    !.envelope = ErrorEnvelope(last.given)]
            /\ UNCHANGED <<conversations, messages>>
       ELSE With(SaveMessages(messages, conversations, last.conversation, last.user), LAMBDA s :
              /\ conversations' = s.convs
              /\ messages' = s.messages
              /\ last' = [last EXCEPT
                    !.pc = "returned", !.trail = Append(@, "persist"),
                    !.envelope = Envelope(last.path, Str(last.conversation),
                                          IF last.path = "low_confidence" THEN "unclear"
                                          ELSE last.classification.intent,
                                          last.success)])
  /\ UNCHANGED <<tasks, requests, now>>

\* the steps of a turn that has started
TurnStep ==
  \/ \E raising \in BOOLEAN : LoadConversation(raising)
  \/ \E reply \in StagedReplies : RemoteCall(reply)
  \/ ResolveStage
  \/ ExecuteStage
  \/ FormatStage
  \/ \E raising \in BOOLEAN : PersistStage(raising)

NextStaged ==
  \/ \E message \in StagedMessages, cid \in 0..Len(conversations) : StartTurn("u1", message, cid)
  \/ TurnStep

SpecStaged == InitStaged /\ [][NextStaged]_vars

\* process_message is sequential code: once called it runs on, and every
\* call it makes returns or raises
SpecStagedFair == SpecStaged /\ WF_vars(TurnStep)

---------------------------------------------------------------------------
(* complete_task(task_id, completed=True) called concurrently on one task, *)
(* every call in a database session of its own: the statements of the      *)
(* calls interleave, each commit is a transaction.                         *)

Callers == 1..MaxCallers

RacedTask == 1

NotCalled ==
  [pc |-> "idle", loaded |-> FALSE, local |-> FALSE, toggles |-> 0, success |-> FALSE,
   completed |-> FALSE]

InitRace ==
  /\ tasks \in {<<Task(RacedTask, "u1", TaskTitle.call_mom, c, FALSE)>> : c \in BOOLEAN}
  /\ conversations = <<>>
  /\ messages = <<>>
  /\ requests = NoRequests
  /\ now = 0
  /\ last = [op |-> "race", calls |-> [c \in Callers |-> NotCalled]]

\* complete_task is called
EnterCompleteTask(c) ==
  /\ last.calls[c].pc = "idle"
  /\ last' = [last EXCEPT !.calls[c].pc = "select"]
  /\ UNCHANGED <<tasks, conversations, messages, requests, now>>

\* toggle_completion: get_task_by_id
SelectTask(c) ==
  /\ last.calls[c].pc = "select"
  /\ GetTaskById(tasks, RacedTask, "u1") # 0
  /\ last' = [last EXCEPT
       !.calls[c].local = SelectInSession(last.calls[c].loaded, @, tasks[RacedTask].completed),
       !.calls[c].loaded = TRUE,
       !.calls[c].pc = "commit"]
  /\ UNCHANGED <<tasks, conversations, messages, requests, now>>

\* toggle_completion: the toggle and its commit
CommitToggle(c) ==
  /\ last.calls[c].pc = "commit"
  /\ tasks' = CommitToggled(tasks, RacedTask, last.calls[c].local)
  /\ last' = [last EXCEPT !.calls[c].pc = "refresh"]
  /\ UNCHANGED <<conversations, messages, requests, now>>

\* toggle_completion: db.refresh and the return to complete_task, which
\* toggles again or returns the task dict
RefreshTask(c) ==
  /\ last.calls[c].pc = "refresh"
  /\ With(RefreshFrom(tasks, RacedTask), LAMBDA row :
       last' = [last EXCEPT
         !.calls[c].local = row,
         !.calls[c].toggles = @ + 1,
         !.calls[c].pc = IF TogglesAgain(row, TRUE, last.calls[c].toggles + 1)
                           THEN "select" ELSE "done",
         !.calls[c].success = ~TogglesAgain(row, TRUE, last.calls[c].toggles + 1),
         !.calls[c].completed = row])
  /\ UNCHANGED <<tasks, conversations, messages, requests, now>>

NextRace ==
  \E c \in Callers :
    EnterCompleteTask(c) \/ SelectTask(c) \/ CommitToggle(c) \/ RefreshTask(c)

SpecRace == InitRace /\ [][NextRace]_vars

---------------------------------------------------------------------------
(* ActionAgent.execute("list_tasks") with the completion filter under      *)
(* either entity name, one call on each store the tools build.             *)

ListParameters ==
  {NoEntities}
    \cup {WithCompleted(NoEntities, b) : b \in BOOLEAN}
    \cup {WithFilter(NoEntities, b) : b \in BOOLEAN}
    \cup {WithCompleted(WithFilter(NoEntities, a), b) : a, b \in BOOLEAN}
    \cup {WithPriority(WithFilter(NoEntities, b), "high") : b \in BOOLEAN}

NextList ==
  \E u \in Users, params \in ListParameters :
    last = Idle /\ ExecuteAction(u, "list_tasks", params, {})

SpecList == InitExecute /\ [][NextList]_vars

---------------------------------------------------------------------------
(* Properties of process_message (SpecChat).                               *)

BatchDeleteTurnReachesBatchBranch ==
  ( /\ last.op = "process_message"
    /\ last.turn.classification.confidence >= 70
    /\ last.turn.classification.intent = "delete_task"
    /\ last.turn.classification.entities.batch_delete
    /\ last.turn.classification.entities.filter_completed
    /\ ~Has(last.turn.classification.entities, "task_id") )
  => /\ last.turn.path = "executed"
     /\ last.turn.tool.path \in {"batch", "exception"}
     /\ last.turn.resolution.error # "No task reference found in message"

\* the number of completed tasks the user has in a store
CompletedOf(store, u) ==
  Cardinality({i \in 1..Len(store) : store[i].user = u /\ ~store[i].deleted /\ store[i].completed})

---------------------------------------------------------------------------
(* Properties of ActionAgent.execute (Spec).                               *)

\* C3: execute of delete_task with batch_delete and filter_completed, for a
\* user with N completed tasks, returns success true with deleted_count +
\* failed_count = N; a failing deletion is counted in failed_count and the
\* other completed tasks are deleted all the same.
BatchDeleteCountsEveryCompletedTask ==
  ( /\ last.op = "execute"
    /\ last.intent = "delete_task"
    /\ last.params.batch_delete
    /\ last.params.filter_completed )
  => /\ last.outcome.result.success
     /\ last.outcome.result.counted
     /\ last.outcome.result.deleted_count + last.outcome.result.failed_count
          = CompletedOf(last.tasksBefore, last.user)
     /\ CompletedOf(tasks, last.user) = last.outcome.result.failed_count

---------------------------------------------------------------------------
(* Properties of IntentClassifierAgent.classify (SpecClassify).            *)

\* C4: classify makes at most two remote calls; a first call that fails
\* with a rate-limit signal is followed by exactly one more call; when that
\* one fails too, or when a call fails without the signal, which is not
\* retried, the result is that of the rule-based classifier for the same
\* message and carries no error.
ClassifyRetriesOnceThenFallsBack ==
  last.op = "classify" =>
    /\ last.result.calls <= 2
    /\ last.replies[1].kind = "error" /\ last.replies[1].signal => last.result.calls = 2
    /\ last.replies[1].kind = "error" /\ ~last.replies[1].signal =>
         /\ last.result.calls = 1
         /\ last.result.result = RuleBasedClassify(last.message)
         /\ ~last.result.result.error
    /\ ( /\ last.replies[1].kind = "error" /\ last.replies[1].signal
         /\ last.replies[2].kind = "error" ) =>
         /\ last.result.result = RuleBasedClassify(last.message)
         /\ ~last.result.result.error

\* a rate-limited first call, a failed second one, and a message the
\* rule-based classifier understands
RetriedThenFellBack ==
  /\ last.op = "classify"
  /\ last.replies[1].kind = "error" /\ last.replies[1].signal
  /\ last.replies[2].kind = "error" /\ last.replies[2].signal
  /\ last.result.calls = 2
  /\ last.result.fallbacks = 1
  /\ last.result.result.intent = "delete_task"

\* C5: a call that succeeds with a reply that is not JSON gives intent
\* unclear, confidence 0, no entities and an error, and the rule-based
\* classifier is not called.
MalformedReplyIsAnError ==
  last.op = "classify" /\ last.replies[1].kind = "malformed" =>
    /\ last.result.result = Unparsed
    /\ last.result.fallbacks = 0

\* C6: with the tasks Buy groceries and Grocery shopping of the user, a
\* delete_task turn whose reference is "the grocery one" is answered by a
\* request for confirmation that lists both tasks with their ids.
GroceryReferenceAsksForConfirmation ==
  ( /\ last.op = "process_message"
    /\ last.turn.classification.confidence >= 70
    /\ last.turn.classification.intent = "delete_task"
    /\ last.turn.classification.entities.keys = {"task_reference"}
    /\ last.turn.classification.entities.task_reference = Reference.the_grocery_one
    /\ Len(last.tasksBefore) = 2
    /\ \A i \in 1..2 : last.tasksBefore[i].user = last.user /\ ~last.tasksBefore[i].deleted
    /\ {last.tasksBefore[1].title, last.tasksBefore[2].title}
         = {TaskTitle.buy_groceries, TaskTitle.grocery_shopping} )
  => /\ last.turn.path = "confirmation"
     /\ last.turn.resolution.confirmation_needed
     /\ {last.turn.resolution.task_ids[i] : i \in 1..Len(last.turn.resolution.task_ids)} = {1, 2}
     /\ {<<last.turn.listed[i].id, last.turn.listed[i].title>> : i \in 1..Len(last.turn.listed)}
          = {<<i, last.tasksBefore[i].title>> : i \in 1..2}

---------------------------------------------------------------------------
(* Properties of TaskResolutionAgent.resolve (SpecResolve).                *)

\* the ids of the tasks of a user, not deleted, whose title contains the
\* reference or is contained in it, whatever the case of the letters
MatchingTasks(store, u, reference) ==
  {i \in 1..Len(store) :
     /\ store[i].user = u
     /\ ~store[i].deleted
     /\ \/ Contains(Lower(store[i].title), Lower(reference))
        \/ Contains(Lower(reference), Lower(store[i].title))}

Elements(s) == {s[i] : i \in 1..Len(s)}

\* resolve was given a reference in words and no task id
FreeTextResolved ==
  /\ last.op = "resolve"
  /\ last.entities.keys = {"task_reference"}
  /\ last.entities.task_reference # <<>>

\* C7, as written: entities that hold a task_id resolve to that id alone,
\* without confirmation and without a listing of the tasks, whatever
\* reference comes with it and whether or not the task exists.
ExplicitIdAlwaysWins ==
  last.op = "resolve" /\ Has(last.entities, "task_id") =>
    /\ last.result.task_ids = <<last.entities.task_id>>
    /\ ~last.result.confirmation_needed
    /\ last.result.listed = <<>>

\* C7, amended: entities that hold a task_id other than 0 resolve to that
\* id alone, without confirmation and without a listing of the tasks,
\* whatever reference comes with it and whether or not the task exists.
NonZeroIdAlwaysWins ==
  last.op = "resolve" /\ Has(last.entities, "task_id") /\ last.entities.task_id # 0 =>
    /\ last.result.task_ids = <<last.entities.task_id>>
    /\ ~last.result.confirmation_needed
    /\ last.result.listed = <<>>
    /\ last.result.error = ""

\* the id of a task that does not exist, given with a reference that two
\* tasks of the user match
MissingIdWithAmbiguousReference ==
  /\ last.op = "resolve"
  /\ last.entities.keys = {"task_id", "task_reference"}
  /\ GetTaskById(tasks, last.entities.task_id, last.user) = 0
  /\ last.entities.task_id # 0
  /\ Cardinality(MatchingTasks(tasks, last.user, last.entities.task_reference)) = 2
  /\ last.result.task_ids = <<last.entities.task_id>>

\* C8: confirmation_needed is true exactly when task_ids holds more than
\* one id; a reference in words that matches one task of the user gives
\* that id without confirmation, and one that matches several gives all of
\* them in task_ids and in matches, with confirmation.
ConfirmationIffSeveralMatches ==
  /\ last.op = "resolve" => (last.result.confirmation_needed <=> Len(last.result.task_ids) > 1)
  /\ FreeTextResolved =>
       LET matching == MatchingTasks(tasks, last.user, last.entities.task_reference)
       IN  /\ Cardinality(matching) = 1 =>
                /\ Elements(last.result.task_ids) = matching
                /\ Len(last.result.task_ids) = 1
                /\ ~last.result.confirmation_needed
           /\ Cardinality(matching) > 1 =>
                /\ Elements(last.result.task_ids) = matching
                /\ {last.result.matches[i].id : i \in 1..Len(last.result.matches)} = matching
                /\ last.result.confirmation_needed

\* C9: with no task_id and an ordinal word for reference, resolve lists the
\* pending tasks of the user and returns the one at that position, the
\* last one for "last", without confirmation, when there is one.
OrdinalReferencePicksPosition ==
  ( /\ FreeTextResolved
    /\ last.entities.task_reference \in {Reference.first, Reference.last}
    /\ ListTasks(tasks, last.user, "pending", "", DefaultLimit).tasks # <<>> )
  => LET pending == ListTasks(tasks, last.user, "pending", "", DefaultLimit).tasks
         position == IF last.entities.task_reference = Reference.first THEN 1 ELSE Len(pending)
     IN  /\ last.result.task_ids = <<pending[position].id>>
         /\ ~last.result.confirmation_needed
         /\ "pending" \in Elements(last.result.listed)

\* C10: for a reference in words, every task of the user that is not
\* deleted and matches it is among the ids returned, however many tasks
\* the user has, so that a reference matching a task is never answered
\* with "No tasks found matching".
EveryMatchingTaskIsACandidate ==
  FreeTextResolved =>
    /\ MatchingTasks(tasks, last.user, last.entities.task_reference)
         \subseteq Elements(last.result.task_ids)
    /\ MatchingTasks(tasks, last.user, last.entities.task_reference) # {} =>
         last.result.error # "No tasks found matching"

---------------------------------------------------------------------------
(* Properties of process_message with its except clause (SpecTurn).        *)

\* the rows a turn of user u appends to conversation c
TurnRows(c, u) ==
  << [conversation |-> c, user |-> u, role |-> "user"],
     [conversation |-> c, user |-> u, role |-> "assistant"] >>

\* the messages table is made of pairs: a row of the user followed by the
\* row of the assistant of the same conversation
MessagesArePaired ==
  /\ Len(messages) % 2 = 0
  /\ \A i \in 1..Len(messages) :
       i % 2 = 1 => /\ messages[i].role = "user"
                    /\ messages[i + 1].role = "assistant"
                    /\ messages[i + 1].conversation = messages[i].conversation

TurnRaised ==
  /\ last.op = "chat"
  /\ ~IsUuid(last.user) \/ last.given = -1 \/ last.fault # "none"

\* C12: whatever raises inside a turn, process_message returns an envelope
\* with a response text, a conversation_id that is an identifier, an intent
\* and success false, and the pipeline has run at most once: no task is
\* created twice.
FailedTurnReturnsWellFormedEnvelope ==
  last.op = "chat" =>
    /\ last.envelope.response # ""
    /\ last.envelope.intent # ""
    /\ last.envelope.success \in BOOLEAN
    /\ last.envelope.conversation_id.uuid
    /\ TurnRaised =>
         /\ ~last.envelope.success
         /\ Len(tasks) <= Len(last.tasksBefore) + 1
         /\ messages = last.messagesBefore

---------------------------------------------------------------------------
(* Properties of RateLimiter (SpecRate).                                   *)

\* the number of calls of a log that are of user u, were allowed, and were
\* made less than WindowSeconds before time t
AllowedInWindow(log, u, t) ==
  Cardinality({i \in 1..Len(log) :
                 log[i].user = u /\ log[i].allowed /\ log[i].at > t - WindowSeconds})

\* C13: is_allowed(user) answers True exactly when fewer than max_requests
\* of the earlier allowed requests of that user are inside the trailing
\* window, whatever the other users did; get_remaining is max_requests
\* less that number and never below 0, so it is 0 right after a refusal;
\* a user none of whose allowed requests is still in the window is allowed.
RateLimitIsSlidingWindow ==
  /\ last.op = "is_allowed" =>
       LET earlier == SubSeq(last.log, 1, Len(last.log) - 1)
       IN  /\ last.allowed <=> AllowedInWindow(earlier, last.user, last.at) < MaxRequests
           /\ AllowedInWindow(earlier, last.user, last.at) = 0 => last.allowed
  /\ last.op = "get_remaining" =>
       /\ last.remaining >= 0
       /\ last.remaining + AllowedInWindow(last.log, last.user, last.at) = MaxRequests
       /\ ( /\ last.log # <<>>
            /\ last.log[Len(last.log)] = [user |-> last.user, at |-> last.at, allowed |-> FALSE] )
          => last.remaining = 0

\* a user who was refused, saw another user served, and is allowed again
\* once the window has passed
RefusedThenAllowedAgain ==
  /\ last.op = "is_allowed"
  /\ last.allowed
  /\ \E i, j \in 1..(Len(last.log) - 1) :
       /\ i < j
       /\ last.log[i].user = last.user /\ ~last.log[i].allowed
       /\ last.log[j].user # last.user /\ last.log[j].allowed

---------------------------------------------------------------------------
(* Properties of the MCP task tools (SpecTools).                           *)

NotFound == "not found or does not belong to user"

\* the last call was complete_task, update_task or delete_task
TaskCall == last.op \in {"complete_task", "update_task", "delete_task"}

\* what the tool of the last call answers, with the same arguments, for an
\* id that no task has
MissingAnswer ==
  With(Len(last.tasksBefore) + 1, LAMBDA id :
    CASE last.op = "complete_task" ->
           CompleteTaskTool(last.tasksBefore, last.user, id, last.completed)
      [] last.op = "update_task" ->
           UpdateTaskTool(last.tasksBefore, last.user, id, last.title, last.priority)
      [] last.op = "delete_task" -> DeleteTaskTool(last.tasksBefore, last.user, id, {}))

\* the last call named a task that another user owns
ForeignCall ==
  /\ TaskCall
  /\ last.id \in 1..Len(last.tasksBefore)
  /\ last.tasksBefore[last.id].user # last.user

\* the ids list_tasks gives a user
ListedIds(store, u) ==
  {t.id : t \in {ListTasks(store, u, "all", "", DefaultLimit).tasks[i] :
                   i \in 1..Len(ListTasks(store, u, "all", "", DefaultLimit).tasks)}}

\* C14: complete_task, update_task and delete_task called on a task of
\* another user fail with the answer they give for an id that no task has,
\* which is "not found or does not belong to user" when the arguments are
\* valid, and change nothing: the owner's task is as it was and is still
\* listed for the owner; list_tasks returns tasks of the caller only.
CrossUserCallsLookLikeMissingTasks ==
  /\ ForeignCall =>
       /\ ~last.result.success
       /\ ~MissingAnswer.success
       /\ last.result.error = MissingAnswer.error
       /\ last.priority \in Priorities \cup {""} => last.result.error = NotFound
       /\ tasks = last.tasksBefore
       /\ ~last.tasksBefore[last.id].deleted =>
            last.id \in ListedIds(tasks, last.tasksBefore[last.id].user)
  /\ last.op = "list_tasks" =>
       \A i \in 1..Len(last.result.tasks) :
         last.tasksBefore[last.result.tasks[i].id].user = last.user

\* a user renames a pending task that another user owns
ForeignUpdateRefused ==
  /\ ForeignCall
  /\ last.op = "update_task"
  /\ last.title = TaskTitle.buy_groceries
  /\ ~last.tasksBefore[last.id].deleted
  /\ ~last.tasksBefore[last.id].completed
  /\ ~last.result.success

\* C15: a successful delete_task leaves the row in the table with its
\* deletion mark set; from then on no tool call changes the row, list_tasks
\* does not list it, and complete_task, update_task and delete_task on it,
\* by its owner too, answer not found.
DeletedTaskStaysDeleted ==
  /\ last.op = "delete_task" /\ last.result.success =>
       /\ ~last.tasksBefore[last.id].deleted
       /\ tasks = [last.tasksBefore EXCEPT ![last.id].deleted = TRUE]
  /\ last.op # "none" =>
       \A i \in 1..Len(last.tasksBefore) :
         last.tasksBefore[i].deleted => i <= Len(tasks) /\ tasks[i] = last.tasksBefore[i]
  /\ last.op = "list_tasks" =>
       \A i \in 1..Len(last.result.tasks) : ~last.tasksBefore[last.result.tasks[i].id].deleted
  /\ ( /\ TaskCall
       /\ last.id \in 1..Len(last.tasksBefore)
       /\ last.tasksBefore[last.id].deleted
       /\ last.priority \in Priorities \cup {""} )
     => ~last.result.success /\ last.result.error = NotFound

\* the owner deletes a task a second time
DeletedTwice ==
  /\ last.op = "delete_task"
  /\ last.id \in 1..Len(last.tasksBefore)
  /\ last.tasksBefore[last.id].deleted
  /\ last.tasksBefore[last.id].user = last.user
  /\ ~last.result.success

---------------------------------------------------------------------------
(* Properties of complete_task (SpecComplete).                             *)

\* C16: complete_task(task_id, completed = X) on a task of the caller that
\* is not deleted succeeds, returns the task with completed = X and leaves
\* it stored with completed = X, whatever it was before; the same call made
\* again right after leaves the table as the first call left it.
CompleteTaskSetsAndIsIdempotent ==
  ( /\ last.op = "complete_task"
    /\ GetTaskById(last.tasksBefore, last.id, last.user) # 0 )
  => /\ last.result.success
     /\ Len(last.result.tasks) = 1
     /\ last.result.tasks[1].id = last.id
     /\ last.result.tasks[1].completed = last.completed
     /\ tasks[last.id].completed = last.completed
     /\ last.again => tasks = last.tasksBefore

---------------------------------------------------------------------------
(* Properties of the conversation a turn uses (SpecTurn).                  *)

\* the conversation id given to the last turn names no conversation
GivenMissing == last.given > Len(last.conversationsBefore)

\* it names a conversation that is soft-deleted
GivenDeleted ==
  /\ last.given \in 1..Len(last.conversationsBefore)
  /\ last.conversationsBefore[last.given].deleted

\* it names a conversation of another user
GivenForeign ==
  /\ last.given \in 1..Len(last.conversationsBefore)
  /\ last.conversationsBefore[last.given].user # last.user

\* C17: a turn given a conversation id that names no conversation, a
\* soft-deleted one or one of another user creates a conversation owned by
\* the caller (when its commit succeeds) and uses it: the messages of the
\* turn go to it and the envelope carries its id.  No turn, failed or not,
\* changes a conversation that is soft-deleted or owned by another user,
\* and no turn appends a message to one.
UnusableConversationIsReplaced ==
  last.op = "chat" =>
    /\ ( /\ IsUuid(last.user)
         /\ GivenMissing \/ GivenDeleted \/ GivenForeign
         /\ last.fault # "get_or_create" )
       => /\ Len(conversations) = Len(last.conversationsBefore) + 1
          /\ last.conversation = Len(conversations)
          /\ conversations[last.conversation].user = last.user
          /\ ~conversations[last.conversation].deleted
          /\ last.fault = "none" =>
               /\ messages = last.messagesBefore \o TurnRows(last.conversation, last.user)
               /\ last.envelope.conversation_id = Str(last.conversation)
    /\ \A i \in 1..Len(last.conversationsBefore) :
         (last.conversationsBefore[i].deleted \/ last.conversationsBefore[i].user # last.user)
           => conversations[i] = last.conversationsBefore[i]
    /\ \A j \in (Len(last.messagesBefore) + 1)..Len(messages) :
         /\ messages[j].conversation \in 1..Len(conversations)
         /\ conversations[messages[j].conversation].user = last.user
         /\ ~conversations[messages[j].conversation].deleted

\* a turn given the id of a live conversation of another user
ForeignConversationGiven ==
  /\ last.op = "chat"
  /\ GivenForeign
  /\ ~GivenDeleted
  /\ last.saved
  /\ Len(messages) = Len(last.messagesBefore) + 2

---------------------------------------------------------------------------
(* Properties of the reference stage of process_message (SpecRefer).       *)

\* the last turn passed the confidence gate with an intent that needs a task
ReferringTurn ==
  /\ last.op = "process_message"
  /\ ~BelowGate(last.turn.classification.confidence)
  /\ last.turn.classification.intent \in ResolvedIntents

\* the resolver calls process_message made itself, those of the action
\* agent left out
ServiceResolveCalls == last.turn.resolveCalls - last.turn.tool.resolveCalls

\* the resolver call of the turn decides what the turn does
ResolutionDecidesTheTurn ==
  /\ ServiceResolveCalls = 1
  /\ (last.turn.resolution.confirmation_needed \/ last.turn.resolution.error # "") =>
       /\ ~last.turn.success
       /\ Len(messages) = last.messagesBefore + 2
       /\ last.turn.executeCalls = 0
       /\ tasks = last.tasksBefore
       /\ Len(last.turn.listed) <= MaxListed
  /\ (~last.turn.resolution.confirmation_needed /\ Len(last.turn.resolution.task_ids) = 1) =>
       /\ last.turn.executeCalls = 1
       /\ last.turn.executed.task_id = last.turn.resolution.task_ids[1]
       /\ Has(last.turn.executed, "task_id")

\* create_task and list_tasks turns never reach the resolver
OtherIntentsSkipResolver ==
  ( /\ last.op = "process_message"
    /\ last.turn.classification.intent \in {"create_task", "list_tasks"} )
  => last.turn.resolveCalls = 0

---------------------------------------------------------------------------
(* Properties of ActionAgent.execute (SpecExecute).                        *)

\* the last call was execute() for one task named by a reference and no id
ExecutedByReference ==
  /\ last.op = "execute"
  /\ last.intent \in ResolvedIntents
  /\ ~(last.intent = "delete_task" /\ last.params.batch_delete /\ last.params.filter_completed)
  /\ last.params.task_id = 0
  /\ last.params.task_reference # <<>>

\* what the resolver answers on the parameters of the last call
LastResolution == Resolve(last.tasksBefore, last.user, last.params)

\* the resolver finds exactly one task for the last call
UniqueMatch ==
  /\ LastResolution.error = ""
  /\ ~LastResolution.confirmation_needed
  /\ Len(LastResolution.task_ids) = 1

\* C19: execute() for delete_task, complete_task or update_task with a
\* task_reference and no task_id calls the resolver; on a unique match it
\* does what it does when given that id; on a resolution that needs
\* confirmation it fails with an error that lists every candidate's title
\* and id.
ReferenceIsResolvedByEveryExecutor ==
  ExecutedByReference =>
    /\ last.outcome.result.resolveCalls = 1
    /\ UniqueMatch =>
         With(Execute(last.tasksBefore, last.intent,
                      WithId(last.params, LastResolution.task_ids[1]), last.user, last.failing),
              LAMBDA direct :
                /\ tasks = direct.store
                /\ last.outcome.result.success = direct.result.success
                /\ last.outcome.result.error = direct.result.error)
    /\ (LastResolution.error = "" /\ LastResolution.confirmation_needed) =>
         /\ ~last.outcome.result.success
         /\ last.outcome.result.error # ""
         /\ last.outcome.result.candidates = TaskList(LastResolution.matches)
         /\ tasks = last.tasksBefore

\* the last call lacked the input its intent needs
MissingInput ==
  /\ last.op = "execute"
  /\ \/ last.intent = "create_task" /\ last.params.title = <<>>
     \/ /\ last.intent \in ResolvedIntents
        /\ ~(last.intent = "delete_task" /\ last.params.batch_delete
                                         /\ last.params.filter_completed)
        /\ last.params.task_id = 0
        /\ \/ last.params.task_reference = <<>>
           \/ LastResolution.task_ids = <<>>

\* C20: execute() always returns a result; on missing input (create_task
\* without a title; complete, delete or update with no task_id and no
\* reference that resolves) the result is a failure and the task store is
\* as it was; every failure result, those for "unclear", for an unknown
\* intent and for a caught exception included, has a non-empty error.
MissingInputFailsWithoutWriting ==
  last.op = "execute" =>
    /\ MissingInput => ~last.outcome.result.success /\ tasks = last.tasksBefore
    /\ ~last.outcome.result.success => last.outcome.result.error # ""
    /\ last.intent \in {"unclear", "archive_task"} =>
         ~last.outcome.result.success /\ tasks = last.tasksBefore

\* a complete_task call with a reference that matches none of the caller's
\* tasks although the caller has one
UnresolvableReference ==
  /\ MissingInput
  /\ last.intent = "complete_task"
  /\ last.params.task_reference # <<>>
  /\ \E i \in 1..Len(last.tasksBefore) :
       last.tasksBefore[i].user = last.user /\ ~last.tasksBefore[i].deleted
  /\ ~last.outcome.result.success

---------------------------------------------------------------------------
(* Properties of simultaneous is_allowed calls (SpecLoop).                 *)

\* the number of calls of a log that are of user u, were allowed, and carry
\* a timestamp in the window that ends at time t
AllowedWithin(log, u, t) ==
  Cardinality({i \in 1..Len(log) :
                 /\ log[i].user = u /\ log[i].allowed
                 /\ log[i].at > t - WindowSeconds /\ log[i].at <= t})

---------------------------------------------------------------------------
(* Properties of RuleBasedClassifier.classify (SpecRules).                 *)

\* the message of the last classification as the keyword tests see it
Lowered == Strip(Lower(last.message))

\* the confidence the classifier gives with an intent
RuleConfidence ==
  [list_tasks |-> 95, delete_task |-> 90, complete_task |-> 90, create_task |-> 90,
   update_task |-> 85, unclear |-> 20]

\* C22: the keyword tests are tried in the order list_tasks, delete_task,
\* complete_task, create_task, update_task and the first that holds gives
\* the intent, with confidence 0.95, 0.9, 0.9, 0.9 and 0.85; every such
\* intent passes the confidence gate; unclear, with confidence 0.2 and no
\* entities, is returned exactly when no test holds; a message with a
\* delete keyword is never complete_task.
FirstKeywordTestWins ==
  last.op = "rules" =>
    /\ last.result.intent = "list_tasks" <=> IsListTasks(Lowered)
    /\ last.result.intent = "delete_task" <=> (~IsListTasks(Lowered) /\ IsDeleteTask(Lowered))
    /\ last.result.intent = "complete_task" <=>
         (~IsListTasks(Lowered) /\ ~IsDeleteTask(Lowered) /\ IsCompleteTask(Lowered))
    /\ last.result.intent = "create_task" <=>
         ( /\ ~IsListTasks(Lowered) /\ ~IsDeleteTask(Lowered) /\ ~IsCompleteTask(Lowered)
           /\ IsCreateTask(Lowered) )
    /\ last.result.intent = "update_task" <=>
         ( /\ ~IsListTasks(Lowered) /\ ~IsDeleteTask(Lowered) /\ ~IsCompleteTask(Lowered)
           /\ ~IsCreateTask(Lowered) /\ IsUpdateTask(Lowered) )
    /\ last.result.intent \in DOMAIN RuleConfidence
    /\ last.result.confidence = RuleConfidence[last.result.intent]
    /\ last.result.intent # "unclear" =>
         last.result.confidence >= 85 /\ ~BelowGate(last.result.confidence)
    /\ last.result.intent = "unclear" => last.result.entities = NoEntities
    /\ AnyIn(Lowered, {Keyword.delete, Keyword.remove, Keyword.trash, Keyword.cancel}) =>
         last.result.intent \in {"list_tasks", "delete_task"}

\* a message with a delete keyword after a completion keyword
DeleteAfterCompletionKeyword ==
  /\ last.op = "rules"
  /\ last.message = Join(<<Keyword.mark, Keyword.done, Keyword.cancel>>)
  /\ last.result.intent = "delete_task"

\* the last message was classified delete_task and holds a completion
\* keyword and the word task
DeleteOfCompletedTasks ==
  /\ last.op = "rules"
  /\ last.result.intent = "delete_task"
  /\ AnyIn(Lowered, {Keyword.completed, Keyword.done, Keyword.finished})
  /\ Contains(Lowered, Keyword.task)

\* C23: every message classified delete_task that holds a completion
\* keyword and the word task, whichever of delete, remove, trash and cancel
\* it holds, gets the entities batch_delete and filter_completed, both
\* true, and nothing else.
EveryDeleteKeywordGivesBatchEntities ==
  DeleteOfCompletedTasks => last.result.entities = WithBatch(NoEntities)

---------------------------------------------------------------------------
(* The context of the classification (SpecTurn).                           *)

\* a turn that reached the classifier in a conversation that already held
\* messages
TurnWithPriorMessages ==
  /\ last.op = "chat"
  /\ last.conversation # 0
  /\ ConversationMessages(last.messagesBefore, last.conversation) # <<>>

\* C24: the classifier of a turn gets the most recent messages of the
\* turn's conversation as history, ten at most, so a conversation that
\* holds messages gives a history that is not empty.
ClassifierGetsRecentMessages ==
  /\ last.op = "chat" /\ last.conversation # 0 =>
       last.history = LastOf(ConversationMessages(last.messagesBefore, last.conversation),
                             HistoryLimit)
  /\ TurnWithPriorMessages => last.history # <<>>

---------------------------------------------------------------------------
(* Termination of a turn (SpecStagedFair).                                 *)

Stages == <<"classify", "resolve", "execute", "format", "persist">>

StageNumber(stage) == CHOOSE n \in 1..Len(Stages) : Stages[n] = stage

\* no stage runs twice and the stages run in the order of Stages
RunInOrder(trail) ==
  \A i, j \in 1..Len(trail) : i < j => StageNumber(trail[i]) < StageNumber(trail[j])

\* the remote classifier is called twice at most; a second rate limit or
\* any other failure gives the classification of the rule-based fallback,
\* which is what classify returns on the replies seen; no stage runs twice
\* and none out of order, all five run in a turn that executes its action
\* and the resolver is called once at most
StagesRunOnce ==
  /\ Len(last.replies) <= MaxRetries + 1
  /\ last.fallbacks <= 1
  /\ RunInOrder(last.trail)
  /\ last.pc \in {"resolve", "execute", "format", "persist"} =>
       /\ last.classification = Classify(last.message, last.replies).result
       /\ last.fallbacks = Classify(last.message, last.replies).fallbacks
       /\ last.replies[Len(last.replies)].kind # "json" =>
            /\ last.fallbacks = 1
            /\ last.classification = RuleBasedClassify(last.message)
  /\ last.pc = "returned" /\ last.path = "executed" => last.trail = Stages
  /\ last.resolveCalls <= 1
  /\ last.pc = "returned" /\ last.envelope.intent # "error" =>
       /\ last.trail[1] = "classify"
       /\ last.trail[Len(last.trail)] = "persist"

\* C25: every turn that starts returns an envelope, when each call it makes
\* returns or raises: the remote classifier is tried twice at most, then
\* the rule-based fallback classifies, and classify, resolve, execute,
\* format and persist run once each in this order.
EveryTurnReturns ==
  /\ []StagesRunOnce
  /\ \A k \in 1..TurnCap :
       (last.served = k) ~> (last.served = k /\ last.pc = "returned")

\* a turn that returned after two rate limits of the remote classifier and
\* the action the fallback classified
ReturnedAfterTwoRateLimits ==
  /\ last.pc = "returned"
  /\ Len(last.replies) = 2
  /\ last.replies[1].signal /\ last.replies[2].signal
  /\ last.fallbacks = 1
  /\ last.trail = Stages

---------------------------------------------------------------------------
(* The conversation a turn answers with (SpecTurn).                        *)

\* id names a conversation of user u that is not deleted
LiveConversationOf(id, u) ==
  /\ id.uuid
  /\ id.number \in 1..Len(conversations)
  /\ conversations[id.number].user = u
  /\ ~conversations[id.number].deleted

\* every message belongs to the owner of its conversation
MessagesFollowOwner ==
  \A i \in 1..Len(messages) :
    /\ messages[i].conversation \in 1..Len(conversations)
    /\ messages[i].user = conversations[messages[i].conversation].user

\* C26: the conversation_id of every result names a conversation of the
\* caller that is not deleted, the one the turn loaded or created when it
\* got that far, and every message has the user of its conversation.
ResultNamesCallersConversation ==
  /\ MessagesFollowOwner
  /\ last.op = "chat" =>
       /\ LiveConversationOf(last.envelope.conversation_id, last.user)
       /\ last.conversation # 0 => last.envelope.conversation_id = Str(last.conversation)

---------------------------------------------------------------------------
(* What a failed turn leaves behind (SpecTurn).                            *)

\* C27: a turn that returns the error envelope has created, changed and
\* deleted no task, so a task written by a turn comes with the two
\* messages of the turn.
ErrorEnvelopeMeansNoTaskChange ==
  last.op = "chat" =>
    /\ last.envelope.intent = "error" => tasks = last.tasksBefore
    /\ tasks # last.tasksBefore =>
         messages = last.messagesBefore \o TurnRows(last.conversation, last.user)

---------------------------------------------------------------------------
(* Concurrent calls of complete_task (SpecRace).                           *)

Returned(c) == last.calls[c].pc = "done"

\* every call that has returned reports the task as completed
EveryCallReportsCompleted ==
  last.op = "race" => \A c \in Callers : Returned(c) => last.calls[c].completed

\* the task is completed once every call has returned
CompletedWhenAllReturned ==
  last.op = "race" /\ (\A c \in Callers : Returned(c)) => tasks[RacedTask].completed

\* C28: however the statements of concurrent complete_task(id, True)
\* calls on one task interleave, every call that succeeds reports
\* completed = True and the task is completed once all have finished.
ConcurrentCompletionsAgree ==
  /\ EveryCallReportsCompleted
  /\ CompletedWhenAllReturned

---------------------------------------------------------------------------
(* The frame of complete_task (SpecComplete).                              *)

\* C29: complete_task(task_id, completed = True) on a task that is already
\* completed leaves the table as it was, recurring task or not, and a call
\* of complete_task adds a task only when it takes a task from pending to
\* completed.
CompletingACompletedTaskChangesNothing ==
  ( /\ last.op = "complete_task"
    /\ GetTaskById(last.tasksBefore, last.id, last.user) # 0 )
  => /\ last.completed /\ last.tasksBefore[last.id].completed => tasks = last.tasksBefore
     /\ Len(tasks) > Len(last.tasksBefore) =>
          /\ ~last.tasksBefore[last.id].completed
          /\ tasks[last.id].completed

---------------------------------------------------------------------------
(* The completion filter of list_tasks (SpecList).                         *)

\* the one entity that holds the filter when exactly one is given
GivenFilter(params) ==
  IF Has(params, "completed") THEN params.completed ELSE params.filter_completed

\* the status a call asks for: all when neither entity is given
AskedStatus(params) ==
  IF ~Has(params, "completed") /\ ~Has(params, "filter_completed") THEN "all"
  ELSE IF GivenFilter(params) THEN "completed"
  ELSE "pending"

\* C30: execute("list_tasks") with completed or filter_completed given,
\* the other absent, lists the caller's pending tasks for false and the
\* completed ones for true, and all of them when neither is given.
ListHonoursEitherFilterName ==
  ( /\ last.op = "execute"
    /\ last.intent = "list_tasks"
    /\ ~(Has(last.params, "completed") /\ Has(last.params, "filter_completed")) )
  => /\ last.outcome.result.success
     /\ last.outcome.result.tasks =
          ListTasks(last.tasksBefore, last.user, AskedStatus(last.params),
                    last.params.priority, DefaultLimit).tasks
     /\ AskedStatus(last.params) = "pending" =>
          \A i \in 1..Len(last.outcome.result.tasks) : ~last.outcome.result.tasks[i].completed

=============================================================================
